---- MODULE Spec2Model ----
(***************************************************************************)
(* Fact Governance Engine of the solicitor-brain backend:                  *)
(*   backend/services/fact_service.py  (FactService)                       *)
(*   backend/utils/compliance.py       (check_citation, validate_sign_off) *)
(*   backend/services/monitoring.py    (metric counters)                   *)
(*   backend/api/facts.py              (HTTP endpoints)                    *)
(* Confidences are integers in hundredths (0.95 is 95).  A string that the *)
(* code searches (a citation source, a fact text) is a sequence of tokens, *)
(* so that "domain in source" and the date patterns are computed.          *)
(***************************************************************************)
EXTENDS Integers, Sequences, FiniteSets, TLC

VARIABLES
    citation_required,    \* settings.citation_required (fixed per deployment)
    facts,                \* rows of table case_facts (committed)
    relations,            \* rows of table fact_relations (committed)
    sess,                 \* per request: the SQLAlchemy session of a save_fact in flight
    bulk,                 \* per request: the bulk_extract_facts call in flight
    next_id,              \* source of fresh fact ids
    citation_checks,      \* Counter citation_checks{success}
    hallucination_blocks, \* Counter hallucination_blocks
    sign_offs,            \* Counter sign_offs{status}
    last,                 \* outcome of the last completed call
    arg,                  \* input of a pure function under check
    res                   \* its result

vars == <<citation_required, facts, relations, sess, bulk, next_id,
          citation_checks, hallucination_blocks, sign_offs, last, arg, res>>

---------------------------------------------------------------------------
\* Bounds of the model
MaxCites == 2     \* longest citation list drawn for the Citation Policy Evaluator
MaxFacts == 3     \* facts constructed in one run about conflicts
MaxGateFacts == 2 \* facts constructed in one run about the citation gate
MaxMetric == 1    \* a call is explored while every counter is below this
MaxOverlapFacts == 3 \* facts constructed in one run about overlapping saves
MaxSerialFacts == 2 \* facts constructed in one run of serialised saves
MaxQueryFacts == 2 \* facts constructed in one run about the listing queries
MaxGovFacts == 1  \* facts constructed in one run about verification and sign-off
MaxDateFacts == 2 \* facts constructed in one run about the critical dates
MaxReasonFacts == 1 \* facts constructed in one run about the amendment reason
MaxRelFacts == 2  \* facts constructed in one run about the relation rows
MaxSignOffs == 2  \* a sign-off request is explored while fewer sign-offs than this are counted
MaxBulkFacts == 1 \* a bulk request is accepted while fewer ids and blocks than this are spent

---------------------------------------------------------------------------
\* Python values.  An Optional[str] is the string or NoneVal; any other Optional
\* is Null or Some(value), so that both cases compare.
NoneVal == "None"
Null == <<>>
Some(x) == <<x>>

\* dict.get(key, default)
Get(d, key, default) == IF key \in DOMAIN d THEN d[key] ELSE default

\* truthiness of an Optional[list]: None and [] are falsy
Truthy(xs) == xs # Null /\ xs[1] # <<>>

\* `needle in haystack` on strings: a contiguous occurrence
Contains(haystack, needle) ==
    \E i \in 0..(Len(haystack) - Len(needle)) :
        \A k \in 1..Len(needle) : haystack[i + k] = needle[k]

---------------------------------------------------------------------------
\* settings (backend/config.py)
min_citation_confidence == 95

allowed_citation_domains ==
    { <<"legislation", ".gov", ".uk">>, <<"bailii", ".org">>, <<"judiciary", ".uk">> }

primary_model == "primary_model"

---------------------------------------------------------------------------
\* Citation Policy Evaluator: compliance.check_citation.
\* The result carries the value returned and the record_citation_check calls made.

RECURSIVE LowConfidenceFrom(_, _)
LowConfidenceFrom(citations, i) ==
    IF i > Len(citations) THEN FALSE
    ELSE IF Get(citations[i], "confidence", 0) < min_citation_confidence THEN TRUE
    ELSE LowConfidenceFrom(citations, i + 1)

valid_domain(source) == \E domain \in allowed_citation_domains : Contains(source, domain)

RECURSIVE InvalidDomainFrom(_, _)
InvalidDomainFrom(citations, i) ==
    IF i > Len(citations) THEN FALSE
    ELSE IF ~valid_domain(Get(citations[i], "source", <<>>)) THEN TRUE
    ELSE InvalidDomainFrom(citations, i + 1)

check_citation_lax(citations) ==
    IF ~citation_required THEN [ok |-> TRUE, recorded |-> <<>>]
    ELSE IF ~Truthy(citations) THEN [ok |-> FALSE, recorded |-> <<FALSE>>]
    ELSE IF \A i \in 1..Len(citations[1]) :
                Get(citations[1][i], "confidence", 0) < min_citation_confidence
         THEN [ok |-> FALSE, recorded |-> <<FALSE>>]
    ELSE IF InvalidDomainFrom(citations[1], 1) THEN [ok |-> FALSE, recorded |-> <<FALSE>>]
    ELSE [ok |-> TRUE, recorded |-> <<TRUE>>]

check_citation(citations) ==
    IF ~citation_required THEN [ok |-> TRUE, recorded |-> <<>>]
    ELSE IF ~Truthy(citations) THEN [ok |-> FALSE, recorded |-> <<FALSE>>]
    ELSE IF LowConfidenceFrom(citations[1], 1) THEN [ok |-> FALSE, recorded |-> <<FALSE>>]
    ELSE IF InvalidDomainFrom(citations[1], 1) THEN [ok |-> FALSE, recorded |-> <<FALSE>>]
    ELSE [ok |-> TRUE, recorded |-> <<TRUE>>]

\* monitoring.record_hallucination_block
record_hallucination_block_Noop(counter) == counter

record_hallucination_block(counter) == counter + 1

\* monitoring.record_citation_check, applied for each recorded observation
RecordCitationChecks(counter, recorded) ==
    [k \in {"true", "false"} |->
        counter[k] + Cardinality({i \in 1..Len(recorded) :
                                     (IF recorded[i] THEN "true" ELSE "false") = k})]

---------------------------------------------------------------------------
\* Inputs

SrcLegislation == <<"https://", "legislation", ".gov", ".uk", "/x">>
SrcRandom == <<"https://", "randomsite", ".com", "/x">>
SrcTruncated == <<"https://", "legislation", ".gov">>

\* the citations the evaluator is checked on: with and without each key
CiteConfidences == {80, 95, 99}
CiteSources == {SrcLegislation, SrcRandom, SrcTruncated}
CitationUniverse ==
    [source : CiteSources, confidence : CiteConfidences]
        \cup [source : CiteSources] \cup [confidence : CiteConfidences]

SeqsUpTo(S, n) == UNION { [1..k -> S] : k \in 0..n }

---------------------------------------------------------------------------
\* FactService._calculate_confidence: sum / len, kept as an exact fraction
RECURSIVE SumConfidences(_, _)
SumConfidences(citations, i) ==
    IF i > Len(citations) THEN 0
    ELSE Get(citations[i], "confidence", 0) + SumConfidences(citations, i + 1)

_calculate_confidence_Total(citations) ==
    IF citations = <<>> THEN [num |-> 0, den |-> 1]
    ELSE [num |-> SumConfidences(citations, 1), den |-> 1]

_calculate_confidence(citations) ==
    IF citations = <<>> THEN [num |-> 0, den |-> 1]
    ELSE [num |-> SumConfidences(citations, 1), den |-> Len(citations)]

---------------------------------------------------------------------------
\* FactService._extract_date.  A text is a sequence of tokens:
\* a number, a separator "/" or "-", white space, a month name, a word.
Num(n) == [k |-> "num", v |-> n, s |-> ""]
Sep(c) == [k |-> "sep", v |-> 0, s |-> c]
Space == [k |-> "space", v |-> 0, s |-> " "]
Month(m) == [k |-> "month", v |-> m, s |-> ""]
Word(w) == [k |-> "word", v |-> 0, s |-> w]

RECURSIVE First4Digits(_)
First4Digits(n) == IF n < 10000 THEN n ELSE First4Digits(n \div 10)

\* r"(\d{1,2})[/-](\d{1,2})[/-](\d{4})" matched at token i
MatchesNumeric(text, i) ==
    /\ i + 4 <= Len(text)
    /\ text[i].k = "num"
    /\ text[i + 1].k = "sep"
    /\ text[i + 2].k = "num" /\ text[i + 2].v < 100
    /\ text[i + 3].k = "sep"
    /\ text[i + 4].k = "num" /\ text[i + 4].v >= 1000

\* r"(\d{1,2})\s+(January|...|December)\s+(\d{4})" matched at token i
MatchesMonthName(text, i) ==
    /\ i + 4 <= Len(text)
    /\ text[i].k = "num"
    /\ text[i + 1].k = "space"
    /\ text[i + 2].k = "month"
    /\ text[i + 3].k = "space"
    /\ text[i + 4].k = "num" /\ text[i + 4].v >= 1000

\* re.search: the leftmost match, 0 when there is none
RECURSIVE SearchNumeric(_, _)
SearchNumeric(text, i) ==
    IF i > Len(text) THEN 0
    ELSE IF MatchesNumeric(text, i) THEN i
    ELSE SearchNumeric(text, i + 1)

RECURSIVE SearchMonthName(_, _)
SearchMonthName(text, i) ==
    IF i > Len(text) THEN 0
    ELSE IF MatchesMonthName(text, i) THEN i
    ELSE SearchMonthName(text, i + 1)

IsLeap(y) == (y % 4 = 0 /\ y % 100 # 0) \/ y % 400 = 0
DaysIn(m, y) ==
    IF m = 2 THEN (IF IsLeap(y) THEN 29 ELSE 28)
    ELSE IF m \in {4, 6, 9, 11} THEN 30 ELSE 31

\* datetime.strptime(match.group(0), "%d/%m/%Y") on the five tokens matched at i:
\* Null stands for the ValueError the caller swallows
Strptime(text, i) ==
    LET d == text[i].v % 100
        m == text[i + 2].v
        y == First4Digits(text[i + 4].v)
    IN  IF /\ text[i + 1].k = "sep" /\ text[i + 1].s = "/"
           /\ text[i + 3].k = "sep" /\ text[i + 3].s = "/"
           /\ text[i + 2].k = "num"
           /\ m \in 1..12 /\ d \in 1..DaysIn(m, y)
        THEN Some(<<y, m, d>>)
        ELSE Null

_extract_date(text) ==
    LET m1 == SearchNumeric(text, 1)
        m2 == SearchMonthName(text, 1)
    IN  IF m1 # 0 /\ Strptime(text, m1) # Null THEN Strptime(text, m1)
        ELSE IF m2 # 0 /\ Strptime(text, m2) # Null THEN Strptime(text, m2)
        ELSE Null

---------------------------------------------------------------------------
\* Conflict Detector: FactService._facts_may_conflict
_facts_may_conflict_AnyCategory(fact1, fact2) ==
    IF fact1.fact_type # fact2.fact_type THEN FALSE
    ELSE IF /\ fact1.fact_type = "date"
            /\ fact1.fact_date # Null /\ fact2.fact_date # Null
            /\ fact1.fact_date # fact2.fact_date
         THEN TRUE
    ELSE IF /\ fact1.fact_type = "party"
            /\ fact1.category = fact2.category
            /\ fact1.fact_text # fact2.fact_text
         THEN TRUE
    ELSE FALSE

_facts_may_conflict(fact1, fact2) ==
    IF fact1.fact_type # fact2.fact_type THEN FALSE
    ELSE IF /\ fact1.fact_type = "date"
            /\ fact1.fact_date # Null /\ fact2.fact_date # Null
            /\ fact1.category = fact2.category
            /\ fact1.fact_date # fact2.fact_date
         THEN TRUE
    ELSE IF /\ fact1.fact_type = "party"
            /\ fact1.category = fact2.category
            /\ fact1.fact_text # fact2.fact_text
         THEN TRUE
    ELSE FALSE

\* FactService._determine_relation
_determine_relation(fact1, fact2) ==
    IF _facts_may_conflict(fact1, fact2) THEN "contradicts" ELSE NoneVal

---------------------------------------------------------------------------
\* Persistence

\* table cases: the cases on file (case CRUD is outside the engine)
cases == {"case1", "case2"}

\* db.get(Case, case_id) finds a row
CaseExists_Always(case_id) == TRUE

CaseExists(case_id) == case_id \in cases

\* a session with nothing pending
IdleSession == [pc |-> "idle", fact |-> Null, rels |-> {}]

\* errors raised by the service: every one is a ValueError with its message
NoError == [exc |-> "", msg |-> ""]
CaseNotFound == [exc |-> "ValueError", msg |-> "Case not found"]
CitationPolicyViolation ==
    [exc |-> "ValueError", msg |-> "Facts must include valid citations from approved sources"]
FactNotFound == [exc |-> "ValueError", msg |-> "Fact not found"]
InvalidVerificationStatus == [exc |-> "ValueError", msg |-> "Invalid verification status"]
InvalidSignOffStatus == [exc |-> "ValueError", msg |-> "Invalid sign-off status"]
CommitFailed == [exc |-> "DBAPIError", msg |-> "commit failed"]

\* id of a CaseFact under construction
NewId == next_id

\* column defaults of CaseFact
CaseFactDefaults ==
    [sign_off_status |-> "suggested", sign_off_by |-> NoneVal, sign_off_at |-> NoneVal,
     amendment_reason |-> NoneVal]

\* created_at of a row inserted now: later than that of every row on file
CreatedAt == Cardinality(facts) + 1

\* save_fact lines 70-72: the verification fields of the new fact
InitialVerification_Always(inp, now) ==
    [verification_status |-> "verified", verified_by |-> inp.user_id, verified_at |-> now]

InitialVerification(inp, now) ==
    [verification_status |-> IF inp.extracted_by_ai THEN "unverified" ELSE "verified",
     verified_by |-> IF ~inp.extracted_by_ai THEN inp.user_id ELSE NoneVal,
     verified_at |-> IF ~inp.extracted_by_ai THEN now ELSE NoneVal]

\* save_fact lines 55-78: the CaseFact it constructs; now is datetime.now(UTC)
NewCaseFact(inp, now) ==
    [id |-> NewId,
     case_id |-> inp.case_id,
     fact_type |-> inp.fact_type,
     fact_text |-> inp.fact_text,
     source_document_id |-> inp.source_document_id,
     source_page |-> inp.source_page,
     source_text |-> inp.source_text,
     extracted_by_ai |-> inp.extracted_by_ai,
     extraction_model |-> IF inp.extracted_by_ai THEN primary_model ELSE NoneVal,
     extraction_timestamp |-> IF inp.extracted_by_ai THEN now ELSE NoneVal,
     citations |-> inp.citations,
     importance |-> inp.importance,
     category |-> inp.category,
     tags |-> inp.tags,
     verification_status |-> InitialVerification(inp, now).verification_status,
     verified_by |-> InitialVerification(inp, now).verified_by,
     verified_at |-> InitialVerification(inp, now).verified_at,
     confidence_score |-> IF Truthy(inp.citations)
                          THEN _calculate_confidence(inp.citations[1])
                          ELSE [num |-> 0, den |-> 1],
     fact_date |-> IF inp.fact_type = "date" THEN _extract_date(inp.fact_text) ELSE Null,
     sign_off_status |-> CaseFactDefaults.sign_off_status,
     sign_off_by |-> CaseFactDefaults.sign_off_by,
     sign_off_at |-> CaseFactDefaults.sign_off_at,
     amendment_reason |-> CaseFactDefaults.amendment_reason,
     created_at |-> 0]

\* _check_fact_relations: the rows its query selects (the session does not autoflush,
\* so the query reads the committed rows only)
SimilarFacts_AnyCase(fact) ==
    { f \in facts : /\ f.id # fact.id
                    /\ f.fact_type = fact.fact_type
                    /\ f.sign_off_status # "rejected" }

SimilarFacts_SeesPending(fact) ==
    { f \in facts \cup { sess[q].fact[1] : q \in { r \in DOMAIN sess : sess[r].pc = "added" } } :
                    /\ f.case_id = fact.case_id
                    /\ f.id # fact.id
                    /\ f.fact_type = fact.fact_type
                    /\ f.sign_off_status # "rejected" }

SimilarFacts(fact) ==
    { f \in facts : /\ f.case_id = fact.case_id
                    /\ f.id # fact.id
                    /\ f.fact_type = fact.fact_type
                    /\ f.sign_off_status # "rejected" }

\* _check_fact_relations: the FactRelation rows it adds to the session
_check_fact_relations(fact) ==
    { [fact_id |-> fact.id, related_fact_id |-> similar.id,
       relation_type |-> _determine_relation(fact, similar), confidence |-> 80] :
        similar \in { f \in SimilarFacts(fact) : _determine_relation(fact, f) # NoneVal } }

\* the citation gate of save_fact, lines 48-53
GateBlocks_OnlyEmpty(inp) ==
    inp.extracted_by_ai /\ citation_required /\ ~Truthy(inp.citations)

GateApplies_Always(inp) == citation_required

GateApplies(inp) == inp.extracted_by_ai /\ citation_required
GateEvaluates(inp) == GateApplies(inp) /\ Truthy(inp.citations)
GateBlocks(inp) ==
    GateApplies(inp) /\ (~Truthy(inp.citations) \/ ~check_citation(inp.citations).ok)

\* every counter that failing calls alone can move is below the cap
CountersBelowCap == hallucination_blocks < MaxMetric

\* save_fact up to and including _check_fact_relations (lines 43-83), by request p.
\* The caller (an endpoint, or bulk_extract_facts) says what becomes of bulk.
SaveFactBegin(p, inp, now) ==
    /\ sess[p].pc = "idle"
    /\ IF ~CaseExists(inp.case_id)
       THEN /\ last' = [op |-> "save_fact", err |-> CaseNotFound, ret |-> <<>>]
            /\ UNCHANGED <<sess, next_id, citation_checks, hallucination_blocks>>
       ELSE /\ citation_checks' =
                IF GateEvaluates(inp)
                THEN RecordCitationChecks(citation_checks, check_citation(inp.citations).recorded)
                ELSE citation_checks
            /\ IF GateBlocks(inp)
               THEN /\ hallucination_blocks' = record_hallucination_block(hallucination_blocks)
                    /\ last' = [op |-> "save_fact", err |-> CitationPolicyViolation, ret |-> <<>>]
                    /\ UNCHANGED <<sess, next_id>>
               ELSE /\ sess' = [sess EXCEPT ![p] =
                                  [pc |-> "added",
                                   fact |-> Some(NewCaseFact(inp, now)),
                                   rels |-> _check_fact_relations(NewCaseFact(inp, now))]]
                    /\ next_id' = next_id + 1
                    /\ last' = [op |-> "save_fact", err |-> NoError, ret |-> <<>>]
                    /\ UNCHANGED hallucination_blocks
    /\ UNCHANGED <<citation_required, facts, relations, sign_offs, arg, res>>

\* db.commit(): what the transaction writes
CommittedRelations_Lost(p) == {}

CommittedFacts(p) == { [sess[p].fact[1] EXCEPT !.created_at = CreatedAt] }
CommittedRelations(p) == sess[p].rels

\* save_fact lines 85-89: commit, refresh, return
SaveFactCommit(p) ==
    /\ sess[p].pc = "added"
    /\ facts' = facts \cup CommittedFacts(p)
    /\ relations' = relations \cup CommittedRelations(p)
    /\ sess' = [sess EXCEPT ![p] = IdleSession]
    /\ last' = [op |-> "save_fact", err |-> NoError, ret |-> <<sess[p].fact[1].id>>]
    /\ UNCHANGED <<citation_required, next_id, citation_checks, hallucination_blocks,
                   sign_offs, arg, res>>

\* the request dies before or in db.commit(): get_db rolls the session back
SaveFactAbort(p) ==
    /\ sess[p].pc = "added"
    /\ sess' = [sess EXCEPT ![p] = IdleSession]
    /\ last' = [op |-> "save_fact", err |-> CommitFailed, ret |-> <<>>]
    /\ UNCHANGED <<citation_required, facts, relations, next_id, citation_checks,
                   hallucination_blocks, sign_offs, arg, res>>

\* a save_fact call made by an endpoint or a script, outside bulk_extract_facts
DirectSaveBegin(p, inp, now) ==
    ~bulk[p].active /\ SaveFactBegin(p, inp, now) /\ UNCHANGED bulk
DirectSaveCommit(p) == ~bulk[p].active /\ SaveFactCommit(p) /\ UNCHANGED bulk
DirectSaveAbort(p) == ~bulk[p].active /\ SaveFactAbort(p) /\ UNCHANGED bulk

---------------------------------------------------------------------------
\* FactService.bulk_extract_facts, one loop iteration at a time

\* the bulk-extract request that holds the service: the number of candidates it
\* carried, its BackgroundTasks, and the scope of its get_db session
NoRequest == [n |-> 0, tasks |-> Null, db |-> "closed"]

NoBulk == [active |-> FALSE, case_id |-> NoneVal, document_id |-> NoneVal,
           extracted_facts |-> <<>>, todo |-> <<>>, saved |-> <<>>, skipped |-> 0,
           request |-> NoRequest]

\* a call of bulk_extract_facts at its first line: saved_facts = []
BulkCall(case_id, document_id, extracted_facts, request) ==
    [active |-> TRUE, case_id |-> case_id, document_id |-> document_id,
     extracted_facts |-> extracted_facts, todo |-> extracted_facts, saved |-> <<>>,
     skipped |-> 0, request |-> request]

\* the save_fact arguments bulk_extract_facts builds from a candidate (lines 225-237)
BulkSaveInput(case_id, document_id, fact_data) ==
    [case_id |-> case_id,
     fact_text |-> fact_data.text,
     fact_type |-> Get(fact_data, "type", "general"),
     source_document_id |-> document_id,
     source_page |-> Get(fact_data, "page", NoneVal),
     source_text |-> Get(fact_data, "source_text", NoneVal),
     citations |-> fact_data.citations,
     extracted_by_ai |-> TRUE,
     importance |-> Get(fact_data, "importance", "medium"),
     category |-> Get(fact_data, "category", NoneVal),
     tags |-> Get(fact_data, "tags", Some(<<>>)),
     user_id |-> NoneVal]

\* the call starts: saved_facts = []
BulkBegin(p, case_id, document_id, extracted_facts) ==
    /\ ~bulk[p].active /\ sess[p].pc = "idle"
    /\ bulk' = [bulk EXCEPT ![p] = BulkCall(case_id, document_id, extracted_facts,
                                            bulk[p].request)]
    /\ last' = [op |-> "bulk_extract_facts", err |-> NoError, ret |-> <<>>]
    /\ UNCHANGED <<citation_required, facts, relations, sess, next_id, citation_checks,
                   hallucination_blocks, sign_offs, arg, res>>

BulkNext_Propagates(p, now) ==
    /\ bulk[p].active /\ sess[p].pc = "idle" /\ bulk[p].todo # <<>>
    /\ LET fact_data == Head(bulk[p].todo)
       IN  IF ~Truthy(Get(fact_data, "citations", Null))
           THEN /\ bulk' = [bulk EXCEPT ![p].todo = Tail(@), ![p].skipped = @ + 1]
                /\ last' = [op |-> "bulk_extract_facts", err |-> NoError, ret |-> <<>>]
                /\ UNCHANGED <<citation_required, facts, relations, sess, next_id,
                               citation_checks, hallucination_blocks, sign_offs, arg, res>>
           ELSE /\ SaveFactBegin(p, BulkSaveInput(bulk[p].case_id, bulk[p].document_id,
                                                  fact_data), now)
                /\ bulk' = IF last'.err # NoError
                           THEN [bulk EXCEPT ![p] = NoBulk]
                           ELSE [bulk EXCEPT ![p].todo = Tail(@)]

\* one candidate: skipped when it has no citations (lines 220-222), else handed to
\* save_fact, whose ValueError is caught (lines 239-241)
BulkNext(p, now) ==
    /\ bulk[p].active /\ sess[p].pc = "idle" /\ bulk[p].todo # <<>>
    /\ LET fact_data == Head(bulk[p].todo)
       IN  IF ~Truthy(Get(fact_data, "citations", Null))
           THEN /\ bulk' = [bulk EXCEPT ![p].todo = Tail(@), ![p].skipped = @ + 1]
                /\ last' = [op |-> "bulk_extract_facts", err |-> NoError, ret |-> <<>>]
                /\ UNCHANGED <<citation_required, facts, relations, sess, next_id,
                               citation_checks, hallucination_blocks, sign_offs, arg, res>>
           ELSE /\ SaveFactBegin(p, BulkSaveInput(bulk[p].case_id, bulk[p].document_id,
                                                  fact_data), now)
                /\ bulk' = [bulk EXCEPT ![p].todo = Tail(@),
                                        ![p].skipped = IF last'.err # NoError THEN @ + 1 ELSE @]

\* the save_fact in flight commits and returns: saved_facts.append(fact)
BulkSaved(p) ==
    /\ bulk[p].active
    /\ SaveFactCommit(p)
    /\ bulk' = [bulk EXCEPT ![p].saved = Append(@, sess[p].fact[1].id)]

\* the commit fails with an error that is no ValueError: it leaves bulk_extract_facts
BulkAbort(p) ==
    /\ bulk[p].active
    /\ SaveFactAbort(p)
    /\ bulk' = [bulk EXCEPT ![p] = NoBulk]

\* return saved_facts
BulkReturn(p) ==
    /\ bulk[p].active /\ sess[p].pc = "idle" /\ bulk[p].todo = <<>>
    /\ last' = [op |-> "bulk_extract_facts", err |-> NoError,
                ret |-> <<bulk[p].saved, bulk[p].skipped>>]
    /\ bulk' = [bulk EXCEPT ![p] = NoBulk]
    /\ UNCHANGED <<citation_required, facts, relations, sess, next_id, citation_checks,
                   hallucination_blocks, sign_offs, arg, res>>

---------------------------------------------------------------------------
\* The bulk-extract endpoint (api/facts.py)

\* more candidates than this go to a background task
BackgroundThreshold == 10

\* BackgroundTasks.add_task
add_task_Dropped(tasks, call) == tasks

add_task(tasks, call) == Some(call)

\* the endpoint up to its first await or return (lines 152-160): a large extraction
\* is scheduled and acknowledged, a small one starts the service call
BulkExtractEndpoint(p, case_id, document_id, extraction_data) ==
    /\ ~bulk[p].active /\ sess[p].pc = "idle" /\ bulk[p].request = NoRequest
    /\ IF Len(extraction_data) > BackgroundThreshold
       THEN /\ bulk' = [bulk EXCEPT ![p].request =
                           [n |-> Len(extraction_data),
                            tasks |-> add_task(bulk[p].request.tasks,
                                               <<case_id, document_id, extraction_data>>),
                            db |-> "open"]]
            /\ last' = [op |-> "bulk_extract_facts_endpoint", err |-> NoError,
                        ret |-> [message |-> Len(extraction_data)]]
       ELSE /\ bulk' = [bulk EXCEPT ![p] =
                           BulkCall(case_id, document_id, extraction_data,
                                    [n |-> Len(extraction_data), tasks |-> Null,
                                     db |-> "open"])]
            /\ last' = [op |-> "bulk_extract_facts", err |-> NoError, ret |-> <<>>]
    /\ UNCHANGED <<citation_required, facts, relations, sess, next_id, citation_checks,
                   hallucination_blocks, sign_offs, arg, res>>

\* the service call of a small extraction returns and the endpoint answers
\* (lines 160-166); the request ends and get_db closes its session
BulkRespond(p) ==
    /\ bulk[p].active /\ sess[p].pc = "idle" /\ bulk[p].todo = <<>>
    /\ bulk[p].request.n > 0 /\ bulk[p].request.n <= BackgroundThreshold
    /\ last' = [op |-> "bulk_extract_facts_endpoint", err |-> NoError,
                ret |-> [extracted |-> Len(bulk[p].saved),
                         failed |-> bulk[p].request.n - Len(bulk[p].saved),
                         facts |-> bulk[p].saved]]
    /\ bulk' = [bulk EXCEPT ![p] = NoBulk]
    /\ UNCHANGED <<citation_required, facts, relations, sess, next_id, citation_checks,
                   hallucination_blocks, sign_offs, arg, res>>

\* get_db past its yield (lines 47-52) while the scheduled task has not started:
\* the session commits nothing and is closed.  Whether the framework leaves the
\* dependency before or after the background tasks depends on its version; when
\* it leaves after them, the exit follows the end of the task at once.
SessionExit(p) ==
    /\ bulk[p].request.tasks # Null /\ bulk[p].request.db = "open"
    /\ bulk' = [bulk EXCEPT ![p].request.db = "closed"]
    /\ UNCHANGED <<citation_required, facts, relations, sess, next_id, citation_checks,
                   hallucination_blocks, sign_offs, last, arg, res>>

\* the scheduled task starts after the response: service.bulk_extract_facts with the
\* arguments given to add_task, on the session of the request.  A session that was
\* closed begins a new transaction at its next use.
TaskRun(p) ==
    /\ bulk[p].request.tasks # Null /\ ~bulk[p].active /\ sess[p].pc = "idle"
    /\ LET call == bulk[p].request.tasks[1]
       IN  bulk' = [bulk EXCEPT ![p] =
                      BulkCall(call[1], call[2], call[3],
                               [bulk[p].request EXCEPT !.tasks = Null])]
    /\ last' = [op |-> "bulk_extract_facts", err |-> NoError, ret |-> <<>>]
    /\ UNCHANGED <<citation_required, facts, relations, sess, next_id, citation_checks,
                   hallucination_blocks, sign_offs, arg, res>>

\* the task returns saved_facts, which nobody reads
TaskReturn(p) ==
    /\ bulk[p].request.n > BackgroundThreshold
    /\ BulkReturn(p)

\* the status code an endpoint answers for the outcome of its service call: create_fact
\* turns a ValueError into 400, verify_fact and sign_off_fact turn it into 404; any
\* other error leaves the endpoint and becomes 500
EndpointStatus(op, err) ==
    IF err = NoError THEN 200
    ELSE IF err.exc # "ValueError" THEN 500
    ELSE IF op = "save_fact" THEN 400
    ELSE 404

---------------------------------------------------------------------------
\* Governance operations

\* db.get(CaseFact, fact_id)
GetFact(fact_id) == { f \in facts : f.id = fact_id }

\* truthiness of an Optional[str]
StrTruthy(str) == str # NoneVal /\ str # ""

\* the row after a governance write
UpdateFact(fact_id, Change(_)) ==
    { IF f.id = fact_id THEN Change(f) ELSE f : f \in facts }

VerifyFact_Unchecked(fact_id, verification_status, user_id, amendment_reason, now) ==
    /\ IF GetFact(fact_id) = {}
       THEN /\ last' = [op |-> "verify_fact", err |-> FactNotFound, ret |-> <<>>]
            /\ UNCHANGED facts
       ELSE /\ facts' = { IF f.id = fact_id
                          THEN [f EXCEPT !.verification_status = verification_status,
                                         !.verified_by = user_id, !.verified_at = now]
                          ELSE f : f \in facts }
            /\ last' = [op |-> "verify_fact", err |-> NoError, ret |-> <<fact_id>>]
    /\ UNCHANGED <<citation_required, relations, sess, bulk, next_id, citation_checks,
                   hallucination_blocks, sign_offs, arg, res>>

\* FactService.verify_fact
VerifyFact(fact_id, verification_status, user_id, amendment_reason, now) ==
    /\ IF GetFact(fact_id) = {}
       THEN /\ last' = [op |-> "verify_fact", err |-> FactNotFound, ret |-> <<>>]
            /\ UNCHANGED facts
       ELSE IF verification_status \notin {"verified", "disputed"}
       THEN /\ last' = [op |-> "verify_fact", err |-> InvalidVerificationStatus, ret |-> <<>>]
            /\ UNCHANGED facts
       ELSE LET Change(f) ==
                    [f EXCEPT !.verification_status = verification_status,
                              !.verified_by = user_id,
                              !.verified_at = now,
                              !.amendment_reason =
                                  IF StrTruthy(amendment_reason) THEN amendment_reason ELSE @]
            IN  /\ facts' = UpdateFact(fact_id, Change)
                /\ last' = [op |-> "verify_fact", err |-> NoError, ret |-> <<fact_id>>]
    /\ UNCHANGED <<citation_required, relations, sess, bulk, next_id, citation_checks,
                   hallucination_blocks, sign_offs, arg, res>>

SignOffFact_MarksVerified(fact_id, sign_off_status, user_id, amendment_reason, now) ==
    /\ IF GetFact(fact_id) = {}
       THEN /\ last' = [op |-> "sign_off_fact", err |-> FactNotFound, ret |-> <<>>]
            /\ UNCHANGED facts
       ELSE IF sign_off_status \notin {"accepted", "amended", "rejected"}
       THEN /\ last' = [op |-> "sign_off_fact", err |-> InvalidSignOffStatus, ret |-> <<>>]
            /\ UNCHANGED facts
       ELSE /\ facts' = { IF f.id = fact_id
                          THEN [f EXCEPT !.sign_off_status = sign_off_status,
                                         !.sign_off_by = user_id,
                                         !.sign_off_at = now,
                                         !.verification_status =
                                             IF sign_off_status = "accepted" THEN "verified" ELSE @,
                                         !.amendment_reason =
                                             IF StrTruthy(amendment_reason)
                                             THEN amendment_reason ELSE @]
                          ELSE f : f \in facts }
            /\ last' = [op |-> "sign_off_fact", err |-> NoError, ret |-> <<fact_id>>]
    /\ UNCHANGED <<citation_required, relations, sess, bulk, next_id, citation_checks,
                   hallucination_blocks, sign_offs, arg, res>>

SignOffFact_DeletesRejected(fact_id, sign_off_status, user_id, amendment_reason, now) ==
    /\ IF GetFact(fact_id) = {}
       THEN /\ last' = [op |-> "sign_off_fact", err |-> FactNotFound, ret |-> <<>>]
            /\ UNCHANGED facts
       ELSE IF sign_off_status \notin {"accepted", "amended", "rejected"}
       THEN /\ last' = [op |-> "sign_off_fact", err |-> InvalidSignOffStatus, ret |-> <<>>]
            /\ UNCHANGED facts
       ELSE /\ facts' =
                IF sign_off_status = "rejected"
                THEN facts \ GetFact(fact_id)
                ELSE { IF f.id = fact_id
                       THEN [f EXCEPT !.sign_off_status = sign_off_status,
                                      !.sign_off_by = user_id,
                                      !.sign_off_at = now,
                                      !.amendment_reason =
                                          IF StrTruthy(amendment_reason)
                                          THEN amendment_reason ELSE @]
                       ELSE f : f \in facts }
            /\ last' = [op |-> "sign_off_fact", err |-> NoError, ret |-> <<fact_id>>]
    /\ UNCHANGED <<citation_required, relations, sess, bulk, next_id, citation_checks,
                   hallucination_blocks, sign_offs, arg, res>>

SignOffFact_DropsRelations(fact_id, sign_off_status, user_id, amendment_reason, now) ==
    /\ IF GetFact(fact_id) = {}
       THEN /\ last' = [op |-> "sign_off_fact", err |-> FactNotFound, ret |-> <<>>]
            /\ UNCHANGED <<facts, relations>>
       ELSE IF sign_off_status \notin {"accepted", "amended", "rejected"}
       THEN /\ last' = [op |-> "sign_off_fact", err |-> InvalidSignOffStatus, ret |-> <<>>]
            /\ UNCHANGED <<facts, relations>>
       ELSE /\ facts' = { IF f.id = fact_id
                          THEN [f EXCEPT !.sign_off_status = sign_off_status,
                                         !.sign_off_by = user_id,
                                         !.sign_off_at = now,
                                         !.amendment_reason =
                                             IF StrTruthy(amendment_reason)
                                             THEN amendment_reason ELSE @]
                          ELSE f : f \in facts }
            /\ relations' =
                   IF sign_off_status = "rejected"
                   THEN { r \in relations : fact_id \notin {r.fact_id, r.related_fact_id} }
                   ELSE relations
            /\ last' = [op |-> "sign_off_fact", err |-> NoError, ret |-> <<fact_id>>]
    /\ UNCHANGED <<citation_required, sess, bulk, next_id, citation_checks,
                   hallucination_blocks, sign_offs, arg, res>>

SignOffFact_ResetsReason(fact_id, sign_off_status, user_id, amendment_reason, now) ==
    /\ IF GetFact(fact_id) = {}
       THEN /\ last' = [op |-> "sign_off_fact", err |-> FactNotFound, ret |-> <<>>]
            /\ UNCHANGED facts
       ELSE IF sign_off_status \notin {"accepted", "amended", "rejected"}
       THEN /\ last' = [op |-> "sign_off_fact", err |-> InvalidSignOffStatus, ret |-> <<>>]
            /\ UNCHANGED facts
       ELSE /\ facts' = { IF f.id = fact_id
                          THEN [f EXCEPT !.sign_off_status = sign_off_status,
                                         !.sign_off_by = user_id,
                                         !.sign_off_at = now,
                                         !.amendment_reason = amendment_reason]
                          ELSE f : f \in facts }
            /\ last' = [op |-> "sign_off_fact", err |-> NoError, ret |-> <<fact_id>>]
    /\ UNCHANGED <<citation_required, relations, sess, bulk, next_id, citation_checks,
                   hallucination_blocks, sign_offs, arg, res>>

\* FactService.sign_off_fact
SignOffFact(fact_id, sign_off_status, user_id, amendment_reason, now) ==
    /\ IF GetFact(fact_id) = {}
       THEN /\ last' = [op |-> "sign_off_fact", err |-> FactNotFound, ret |-> <<>>]
            /\ UNCHANGED facts
       ELSE IF sign_off_status \notin {"accepted", "amended", "rejected"}
       THEN /\ last' = [op |-> "sign_off_fact", err |-> InvalidSignOffStatus, ret |-> <<>>]
            /\ UNCHANGED facts
       ELSE LET Change(f) ==
                    [f EXCEPT !.sign_off_status = sign_off_status,
                              !.sign_off_by = user_id,
                              !.sign_off_at = now,
                              !.amendment_reason =
                                  IF StrTruthy(amendment_reason) THEN amendment_reason ELSE @]
            IN  /\ facts' = UpdateFact(fact_id, Change)
                /\ last' = [op |-> "sign_off_fact", err |-> NoError, ret |-> <<fact_id>>]
    /\ UNCHANGED <<citation_required, relations, sess, bulk, next_id, citation_checks,
                   hallucination_blocks, sign_offs, arg, res>>

---------------------------------------------------------------------------
\* The sign-off endpoint (api/facts.py) and compliance.validate_sign_off

\* the statuses the request body FactSignOff admits; any other body is answered
\* 422 before the endpoint runs
FactSignOffStatuses == {"accepted", "amended", "rejected"}

valid_statuses == {"suggested", "accepted", "amended", "rejected"}

\* services.auth.get_default_user()["id"]
get_default_user == "default-user"

RequestValidationError == [exc |-> "RequestValidationError", msg |-> "status"]
HTTPException(detail) == [exc |-> "HTTPException", msg |-> detail]

\* monitoring.record_sign_off
record_sign_off_Noop(counter, status) == counter

record_sign_off(counter, status) == [counter EXCEPT ![status] = @ + 1]

\* compliance.validate_sign_off: the value returned and the counter it leaves
validate_sign_off(counter, status) ==
    IF status \notin valid_statuses THEN [ok |-> FALSE, counter |-> counter]
    ELSE [ok |-> TRUE, counter |-> record_sign_off(counter, status)]

\* POST /facts/{fact_id}/sign-off: body validation, validate_sign_off, then
\* FactService.sign_off_fact with its ValueError turned into 404
SignOffEndpoint(fact_id, status, reason, now) ==
    /\ IF status \notin FactSignOffStatuses
       THEN /\ last' = [op |-> "sign_off_fact_endpoint", err |-> RequestValidationError,
                        ret |-> [status_code |-> 422]]
            /\ UNCHANGED <<facts, sign_offs>>
       ELSE IF ~validate_sign_off(sign_offs, status).ok
       THEN /\ last' = [op |-> "sign_off_fact_endpoint",
                        err |-> HTTPException(InvalidSignOffStatus.msg),
                        ret |-> [status_code |-> 400]]
            /\ UNCHANGED <<facts, sign_offs>>
       ELSE /\ sign_offs' = validate_sign_off(sign_offs, status).counter
            /\ IF GetFact(fact_id) = {}
               THEN /\ last' = [op |-> "sign_off_fact_endpoint",
                                err |-> HTTPException(FactNotFound.msg),
                                ret |-> [status_code |-> 404]]
                    /\ UNCHANGED facts
               ELSE IF status \notin {"accepted", "amended", "rejected"}
               THEN /\ last' = [op |-> "sign_off_fact_endpoint",
                                err |-> HTTPException(InvalidSignOffStatus.msg),
                                ret |-> [status_code |-> 404]]
                    /\ UNCHANGED facts
               ELSE LET Change(f) ==
                            [f EXCEPT !.sign_off_status = status,
                                      !.sign_off_by = get_default_user,
                                      !.sign_off_at = now,
                                      !.amendment_reason =
                                          IF StrTruthy(reason) THEN reason ELSE @]
                    IN  /\ facts' = UpdateFact(fact_id, Change)
                        /\ last' = [op |-> "sign_off_fact_endpoint", err |-> NoError,
                                    ret |-> [status_code |-> 200, id |-> fact_id]]
    /\ UNCHANGED <<citation_required, relations, sess, bulk, next_id, citation_checks,
                   hallucination_blocks, arg, res>>

---------------------------------------------------------------------------
\* A metrics sink that fails: a record_* function of monitoring.py raises.  None of
\* its callers catches the exception.

SinkFailed == [exc |-> "Exception", msg |-> "metric not recorded"]

\* the operations of FactService under the timed decorator
TimedOps ==
    { "save_fact", "verify_fact", "sign_off_fact", "get_case_facts",
      "find_conflicting_facts", "get_critical_dates", "bulk_extract_facts" }

\* monitoring.timed (lines 128-141) when record_request_duration raises: the wrapped
\* function has returned what last holds, with its writes committed, and the caller
\* gets the exception of the sink in place of the result
TimedSinkFails(p) ==
    /\ sess[p].pc = "idle" /\ ~bulk[p].active
    /\ last.op \in TimedOps /\ last.err = NoError
    /\ last' = [op |-> last.op, err |-> SinkFailed, ret |-> <<>>]
    /\ UNCHANGED <<citation_required, facts, relations, sess, bulk, next_id,
                   citation_checks, hallucination_blocks, sign_offs, arg, res>>

\* save_fact when a metric of its citation gate is not recorded: record_citation_check
\* raises inside check_citation (compliance.py:68-87), or record_hallucination_block
\* raises after the check was recorded (fact_service.py:52); the exception leaves
\* save_fact before the fact is constructed
SaveFactSinkFails(p, inp, metric) ==
    /\ sess[p].pc = "idle" /\ ~bulk[p].active
    /\ CaseExists(inp.case_id)
    /\ \/ /\ metric = "citation_check"
          /\ GateEvaluates(inp)
          /\ UNCHANGED citation_checks
       \/ /\ metric = "hallucination_block"
          /\ GateBlocks(inp)
          /\ citation_checks' =
                IF GateEvaluates(inp)
                THEN RecordCitationChecks(citation_checks, check_citation(inp.citations).recorded)
                ELSE citation_checks
    /\ last' = [op |-> "save_fact", err |-> SinkFailed, ret |-> <<>>]
    /\ UNCHANGED <<citation_required, facts, relations, sess, bulk, next_id,
                   hallucination_blocks, sign_offs, arg, res>>

\* the sign-off endpoint when record_sign_off raises inside validate_sign_off
\* (compliance.py:99): the request ends before sign_off_fact is called
SignOffEndpointSinkFails(fact_id, status) ==
    /\ status \in FactSignOffStatuses
    /\ last' = [op |-> "sign_off_fact_endpoint", err |-> SinkFailed,
                ret |-> [status_code |-> 500]]
    /\ UNCHANGED <<citation_required, facts, relations, sess, bulk, next_id,
                   citation_checks, hallucination_blocks, sign_offs, arg, res>>

---------------------------------------------------------------------------
\* Queries

\* ORDER BY created_at DESC
RECURSIVE OrderByCreatedDesc(_)
OrderByCreatedDesc(rows) ==
    IF rows = {} THEN <<>>
    ELSE LET newest == CHOOSE f \in rows : \A g \in rows : g.created_at <= f.created_at
         IN  <<newest>> \o OrderByCreatedDesc(rows \ {newest})

get_case_facts_OldestFirst(case_id, fact_type, verification_status, importance, include_rejected) ==
    LET rows == OrderByCreatedDesc(
                    { f \in facts :
                        /\ f.case_id = case_id
                        /\ (StrTruthy(fact_type) => f.fact_type = fact_type)
                        /\ (StrTruthy(verification_status)
                               => f.verification_status = verification_status)
                        /\ (StrTruthy(importance) => f.importance = importance)
                        /\ (~include_rejected => f.sign_off_status # "rejected") })
    IN  [i \in 1..Len(rows) |-> rows[Len(rows) + 1 - i]]

\* FactService.get_case_facts; a filter that is None or "" is not applied
get_case_facts(case_id, fact_type, verification_status, importance, include_rejected) ==
    OrderByCreatedDesc(
        { f \in facts :
            /\ f.case_id = case_id
            /\ (StrTruthy(fact_type) => f.fact_type = fact_type)
            /\ (StrTruthy(verification_status) => f.verification_status = verification_status)
            /\ (StrTruthy(importance) => f.importance = importance)
            /\ (~include_rejected => f.sign_off_status # "rejected") })

\* the nested loops of find_conflicting_facts: fact1 = rows[i], fact2 over rows[j..]
RECURSIVE ConflictLoop(_, _, _)
ConflictLoop(rows, i, j) ==
    IF i > Len(rows) THEN <<>>
    ELSE IF j > Len(rows) THEN ConflictLoop(rows, i + 1, i + 2)
    ELSE (IF _facts_may_conflict(rows[i], rows[j]) THEN << <<rows[i].id, rows[j].id>> >> ELSE <<>>)
             \o ConflictLoop(rows, i, j + 1)

\* FactService.find_conflicting_facts: the pairs, as pairs of ids
find_conflicting_facts_WithRejected(case_id) ==
    ConflictLoop(get_case_facts(case_id, NoneVal, NoneVal, NoneVal, TRUE), 1, 2)

find_conflicting_facts(case_id) ==
    ConflictLoop(get_case_facts(case_id, NoneVal, NoneVal, NoneVal, FALSE), 1, 2)

\* the ids of a list of rows
Ids(rows) == [i \in 1..Len(rows) |-> rows[i].id]

FindConflictingFacts_Persisting(case_id) ==
    /\ last' = [op |-> "find_conflicting_facts", err |-> NoError,
                ret |-> <<case_id, find_conflicting_facts(case_id)>>]
    /\ relations' = relations \cup
            { [fact_id |-> pr[1], related_fact_id |-> pr[2], relation_type |-> "contradicts",
               confidence |-> 100] :
                pr \in { find_conflicting_facts(case_id)[i] :
                            i \in 1..Len(find_conflicting_facts(case_id)) } }
    /\ UNCHANGED <<citation_required, facts, sess, bulk, next_id,
                   citation_checks, hallucination_blocks, sign_offs, arg, res>>

FindConflictingFacts(case_id) ==
    /\ last' = [op |-> "find_conflicting_facts", err |-> NoError,
                ret |-> <<case_id, find_conflicting_facts(case_id)>>]
    /\ UNCHANGED <<citation_required, facts, relations, sess, bulk, next_id,
                   citation_checks, hallucination_blocks, sign_offs, arg, res>>

\* a call of get_case_facts with every parameter
ListCaseFacts(case_id, fact_type, verification_status, importance, include_rejected) ==
    /\ last' = [op |-> "get_case_facts", err |-> NoError,
                ret |-> <<case_id, fact_type, verification_status, importance,
                          include_rejected,
                          Ids(get_case_facts(case_id, fact_type, verification_status,
                                             importance, include_rejected))>>]
    /\ UNCHANGED <<citation_required, facts, relations, sess, bulk, next_id,
                   citation_checks, hallucination_blocks, sign_offs, arg, res>>

\* fact_date of row f sorts before that of row g; a NULL sorts after every date
\* (PostgreSQL, ascending)
DateBefore(f, g) ==
    /\ f.fact_date # Null
    /\ \/ g.fact_date = Null
       \/ /\ g.fact_date # Null
          /\ LET a == f.fact_date[1]
                 b == g.fact_date[1]
             IN  \/ a[1] < b[1]
                 \/ a[1] = b[1] /\ a[2] < b[2]
                 \/ a[1] = b[1] /\ a[2] = b[2] /\ a[3] < b[3]

\* ORDER BY fact_date
RECURSIVE OrderByFactDate(_)
OrderByFactDate(rows) ==
    IF rows = {} THEN <<>>
    ELSE LET earliest == CHOOSE f \in rows : \A g \in rows : ~DateBefore(g, f)
         IN  <<earliest>> \o OrderByFactDate(rows \ {earliest})

\* FactService.get_critical_dates
get_critical_dates_WithRejected(case_id) ==
    OrderByFactDate(
        { f \in facts :
            /\ f.case_id = case_id
            /\ f.fact_type = "date"
            /\ f.importance \in {"critical", "high"} })

get_critical_dates_VerifiedNewestFirst(case_id) ==
    OrderByCreatedDesc(
        { f \in facts :
            /\ f.case_id = case_id
            /\ f.fact_type = "date"
            /\ f.importance \in {"critical", "high"}
            /\ f.verification_status = "verified"
            /\ f.sign_off_status # "rejected" })

get_critical_dates(case_id) ==
    OrderByFactDate(
        { f \in facts :
            /\ f.case_id = case_id
            /\ f.fact_type = "date"
            /\ f.importance \in {"critical", "high"}
            /\ f.sign_off_status # "rejected" })

GetCriticalDates(case_id) ==
    /\ last' = [op |-> "get_critical_dates", err |-> NoError,
                ret |-> <<case_id, Ids(get_critical_dates(case_id)), "fact_date", "asc">>]
    /\ UNCHANGED <<citation_required, facts, relations, sess, bulk, next_id,
                   citation_checks, hallucination_blocks, sign_offs, arg, res>>

GetCaseFacts(case_id, include_rejected) ==
    /\ last' = [op |-> "get_case_facts", err |-> NoError,
                ret |-> <<case_id, include_rejected,
                          Ids(get_case_facts(case_id, NoneVal, NoneVal, NoneVal,
                                             include_rejected))>>]
    /\ UNCHANGED <<citation_required, facts, relations, sess, bulk, next_id,
                   citation_checks, hallucination_blocks, sign_offs, arg, res>>

---------------------------------------------------------------------------
\* Inputs of the runs

TxtJan == <<Word("Hearing on"), Space, Num(10), Sep("/"), Num(1), Sep("/"), Num(2025)>>
TxtFeb == <<Num(10), Sep("/"), Num(2), Sep("/"), Num(2025)>>
TxtDashed == <<Num(10), Sep("-"), Num(1), Sep("-"), Num(2025)>>
TxtMonthName == <<Num(10), Space, Month(1), Space, Num(2025)>>
TxtNoSuchDay == <<Num(31), Sep("/"), Num(2), Sep("/"), Num(2025)>>
TxtAcme == <<Word("Acme Ltd")>>
TxtBob == <<Word("Bob")>>

CiteGood == [source |-> SrcLegislation, confidence |-> 99]
CiteGood95 == [source |-> SrcLegislation, confidence |-> 95]
CiteLow == [source |-> SrcLegislation, confidence |-> 80]
CiteRandom == [source |-> SrcRandom, confidence |-> 99]

SaveInput(case_id, fact_text, fact_type, citations, extracted_by_ai, importance,
          category, user_id) ==
    [case_id |-> case_id, fact_text |-> fact_text, fact_type |-> fact_type,
     source_document_id |-> NoneVal, source_page |-> NoneVal, source_text |-> NoneVal,
     citations |-> citations, extracted_by_ai |-> extracted_by_ai,
     importance |-> importance, category |-> category, tags |-> Null,
     user_id |-> user_id]

\* runs about the citation gate: an AI fact with every kind of citation list,
\* a manual fact with none or with failing ones, a case that is not on file
GateCitations ==
    { Null, Some(<<>>), Some(<<CiteLow>>), Some(<<CiteGood, CiteRandom>>),
      Some(<<CiteGood95, CiteGood>>) }
GateInputs ==
    { SaveInput(c, TxtAcme, "party", cit, TRUE, "medium", NoneVal, NoneVal) :
        c \in {"case1", "case9"}, cit \in GateCitations }
    \cup
    { SaveInput(c, TxtAcme, "party", Null, FALSE, "medium", NoneVal, "user1") :
        c \in {"case1", "case9"} }
    \cup
    { SaveInput("case1", TxtAcme, "party", Some(<<CiteLow, CiteRandom>>), FALSE, "medium",
                NoneVal, "user3") }

\* candidates of a bulk extraction: without citations, passing, failing the policy
CandNoCitations == [text |-> TxtBob, type |-> "party", citations |-> Some(<<>>)]
CandGood == [text |-> TxtBob, type |-> "party", citations |-> Some(<<CiteGood>>),
             category |-> "client"]
CandLow == [text |-> TxtAcme, citations |-> Some(<<CiteLow>>)]
BulkInputs ==
    { <<CandGood>>, <<CandNoCitations, CandGood>>, <<CandLow, CandGood>>,
      <<CandGood, CandNoCitations>> }

\* runs about conflicts: types, dates, categories and cases vary
ConflictShapes ==
    { <<"date", TxtJan, "hearing_date">>, <<"date", TxtFeb, "hearing_date">>,
      <<"date", TxtFeb, NoneVal>>, <<"date", TxtDashed, "hearing_date">>,
      <<"party", TxtAcme, NoneVal>>, <<"party", TxtBob, NoneVal>>,
      <<"claim", TxtAcme, NoneVal>> }
OtherCaseShapes == { <<"date", TxtJan, "hearing_date">> }
ConflictInputs ==
    { SaveInput("case1", x[2], x[1], Null, FALSE, "medium", x[3], "user1") :
        x \in ConflictShapes }
    \cup
    { SaveInput("case2", x[2], x[1], Null, FALSE, "medium", x[3], "user1") :
        x \in OtherCaseShapes }

---------------------------------------------------------------------------
\* Specifications

InitWith(Procs, Required) ==
    /\ citation_required \in Required
    /\ facts = {}
    /\ relations = {}
    /\ sess = [p \in Procs |-> IdleSession]
    /\ bulk = [p \in Procs |-> NoBulk]
    /\ next_id = 1
    /\ citation_checks = [k \in {"true", "false"} |-> 0]
    /\ hallucination_blocks = 0
    /\ sign_offs = [k \in {"suggested", "accepted", "amended", "rejected"} |-> 0]
    /\ last = [op |-> "", err |-> NoError, ret |-> <<>>]

\* One request at a time saves; governance calls and queries come from other requests.
\* Spec: runs about the citation gate.
Init == InitWith({"a"}, BOOLEAN) /\ arg = <<>> /\ res = <<>>

Save ==
    /\ next_id <= MaxGateFacts
    /\ CountersBelowCap
    /\ \E inp \in GateInputs : DirectSaveBegin("a", inp, "t1")
Commit == DirectSaveCommit("a")
Abort == DirectSaveAbort("a")
Bulk ==
    \/ \E cands \in BulkInputs : BulkBegin("a", "case1", "doc1", cands)
    \/ next_id <= MaxGateFacts /\ CountersBelowCap /\ BulkNext("a", "t1")
    \/ BulkSaved("a")
    \/ BulkAbort("a")
    \/ BulkReturn("a")
SignOff == \E id \in 1..MaxGateFacts : SignOffFact(id, "rejected", "user2", NoneVal, "t2")

Next == Save \/ Commit \/ Abort \/ Bulk \/ SignOff

Spec == Init /\ [][Next]_vars

\* SpecConflict: runs about conflicts between facts.
InitConflict == InitWith({"a"}, {TRUE}) /\ arg = <<>> /\ res = <<>>

SaveC ==
    /\ next_id <= MaxFacts
    /\ \E inp \in ConflictInputs : DirectSaveBegin("a", inp, "t1")
SignOffC == \E id \in 1..MaxFacts : SignOffFact(id, "rejected", "user2", NoneVal, "t2")
Scan == \E c \in cases : FindConflictingFacts(c)

NextConflict == SaveC \/ Commit \/ Abort \/ SignOffC \/ Scan

SpecConflict == InitConflict /\ [][NextConflict]_vars

\* SpecOverlap: two requests save into one case at the same time, each with its own
\* session (get_db hands every request a session of its own).
OverlapInputs ==
    { SaveInput("case1", txt, "date", Null, FALSE, "medium", "hearing_date", "user1") :
        txt \in {TxtJan, TxtFeb} }
Requests == {"a", "b"}
InitOverlap == InitWith(Requests, {TRUE}) /\ arg = <<>> /\ res = <<>>
SaveO ==
    /\ next_id <= MaxOverlapFacts
    /\ \E p \in Requests, inp \in OverlapInputs : DirectSaveBegin(p, inp, "t1")
CommitO == \E p \in Requests : DirectSaveCommit(p)
AbortO == \E p \in Requests : DirectSaveAbort(p)
ScanO == FindConflictingFacts("case1")
NextOverlap == SaveO \/ CommitO \/ AbortO \/ ScanO
SpecOverlap == InitOverlap /\ [][NextOverlap]_vars

\* SpecGovern: facts are saved one call at a time and verified and signed off, also
\* with a fact id that is not on file and with statuses outside the allowed ones.
AiFeb ==
    SaveInput("case1", TxtFeb, "date", Some(<<CiteGood>>), TRUE, "medium", "hearing_date",
              NoneVal)
ManualJan ==
    SaveInput("case1", TxtJan, "date", Null, FALSE, "critical", "hearing_date", "user1")
GovInputs == { AiFeb, ManualJan }
GovIds == 1..(MaxGovFacts + 1)
\* the status and the amendment reason of a call
VerifyCalls == { <<"verified", NoneVal>>, <<"disputed", "typo">>, <<"unverified", NoneVal>> }
SignOffCalls ==
    { <<"accepted", NoneVal>>, <<"amended", "typo">>, <<"rejected", NoneVal>>,
      <<"suggested", "typo">> }
InitGovern == InitWith({"a"}, {TRUE}) /\ arg = <<>> /\ res = <<>>
SaveG ==
    /\ next_id <= MaxGovFacts
    /\ \E inp \in GovInputs : DirectSaveBegin("a", inp, "t1")
VerifyG ==
    \E id \in GovIds, c \in VerifyCalls :
        VerifyFact(id, c[1], "user2", c[2], "t2")
SignOffG ==
    \E id \in GovIds, c \in SignOffCalls :
        SignOffFact(id, c[1], "user3", c[2], "t3")
NextGovern == SaveG \/ Commit \/ Abort \/ VerifyG \/ SignOffG
SpecGovern == InitGovern /\ [][NextGovern]_vars

\* SpecSerial: save_fact calls never overlap (one request saves at a time); facts are
\* verified and signed off between and during the saves, and the case is scanned.
InitSerial == InitWith({"a"}, {TRUE}) /\ arg = <<>> /\ res = <<>>
SaveS ==
    /\ next_id <= MaxSerialFacts
    /\ \E inp \in GovInputs : DirectSaveBegin("a", inp, "t1")
VerifyS ==
    \E id \in 1..MaxSerialFacts, c \in VerifyCalls : VerifyFact(id, c[1], "user2", c[2], "t2")
SignOffS ==
    \E id \in 1..MaxSerialFacts, c \in SignOffCalls :
        SignOffFact(id, c[1], "user3", c[2], "t3")
ScanS == FindConflictingFacts("case1")
NextSerial == SaveS \/ Commit \/ Abort \/ VerifyS \/ SignOffS \/ ScanS
SpecSerial == InitSerial /\ [][NextSerial]_vars

\* SpecQuery: facts of several types, importances and cases are saved one call at a
\* time, rejected and accepted, and the three read queries are called.
QueryInputs ==
    { ManualJan, AiFeb,
      SaveInput("case1", TxtFeb, "date", Null, FALSE, "high", "hearing_date", "user1"),
      SaveInput("case1", TxtDashed, "date", Null, FALSE, "critical", "hearing_date", "user1"),
      SaveInput("case1", TxtAcme, "party", Null, FALSE, "low", NoneVal, "user1"),
      SaveInput("case2", TxtJan, "date", Null, FALSE, "critical", "hearing_date", "user1") }
\* case_id, fact_type, verification_status, importance, include_rejected
ListCalls ==
    { <<"case1", NoneVal, NoneVal, NoneVal, FALSE>>,
      <<"case1", NoneVal, NoneVal, NoneVal, TRUE>>,
      <<"case1", "date", NoneVal, NoneVal, FALSE>>,
      <<"case1", "", "verified", NoneVal, TRUE>>,
      <<"case1", "date", "verified", "critical", FALSE>>,
      <<"case1", NoneVal, "unverified", "medium", TRUE>>,
      <<"case1", "party", NoneVal, "critical", FALSE>>,
      <<"case2", NoneVal, NoneVal, NoneVal, FALSE>> }
InitQuery == InitWith({"a"}, {TRUE}) /\ arg = <<>> /\ res = <<>>
SaveQ ==
    /\ next_id <= MaxQueryFacts
    /\ \E inp \in QueryInputs : DirectSaveBegin("a", inp, "t1")
SignOffQ ==
    \E id \in 1..MaxQueryFacts, st \in {"rejected", "accepted"} :
        SignOffFact(id, st, "user3", NoneVal, "t3")
ListQ == \E c \in ListCalls : ListCaseFacts(c[1], c[2], c[3], c[4], c[5])
DatesQ == \E c \in cases : GetCriticalDates(c)
ScanQ == \E c \in cases : FindConflictingFacts(c)
NextQuery == SaveQ \/ Commit \/ Abort \/ SignOffQ \/ ListQ \/ DatesQ \/ ScanQ
SpecQuery == InitQuery /\ [][NextQuery]_vars

\* SpecDates: date facts of every importance, saved by hand and by AI, with and
\* without a date the parser reads, are disputed and rejected, and the critical
\* dates of the cases are listed.
DateInputs ==
    { ManualJan,
      SaveInput("case1", TxtFeb, "date", Some(<<CiteGood>>), TRUE, "high", "hearing_date",
                NoneVal),
      SaveInput("case1", TxtFeb, "date", Null, FALSE, "low", "hearing_date", "user1"),
      SaveInput("case1", TxtDashed, "date", Null, FALSE, "critical", NoneVal, "user1"),
      SaveInput("case1", TxtJan, "party", Null, FALSE, "critical", NoneVal, "user1"),
      SaveInput("case2", TxtJan, "date", Null, FALSE, "high", "hearing_date", "user1") }
InitDates == InitWith({"a"}, {TRUE}) /\ arg = <<>> /\ res = <<>>
SaveD ==
    /\ next_id <= MaxDateFacts
    /\ \E inp \in DateInputs : DirectSaveBegin("a", inp, "t1")
VerifyD == \E id \in 1..MaxDateFacts : VerifyFact(id, "disputed", "user2", NoneVal, "t2")
SignOffD == \E id \in 1..MaxDateFacts : SignOffFact(id, "rejected", "user3", NoneVal, "t3")
DatesD == \E c \in cases : GetCriticalDates(c)
NextDates == SaveD \/ Commit \/ Abort \/ VerifyD \/ SignOffD \/ DatesD
SpecDates == InitDates /\ [][NextDates]_vars

\* SpecReason: a fact is verified, disputed and signed off with a reason, with an
\* empty reason and with none, and with statuses that are not allowed.
ReasonVerifyCalls ==
    { <<"disputed", "v-reason">>, <<"verified", NoneVal>>, <<"verified", "">>,
      <<"pending", "x-reason">> }
ReasonSignOffCalls ==
    { <<"amended", "s-reason">>, <<"accepted", NoneVal>>, <<"rejected", "">>,
      <<"suggested", "x-reason">> }
ReasonIds == 1..(MaxReasonFacts + 1)
InitReason == InitWith({"a"}, {TRUE}) /\ arg = <<>> /\ res = <<>>
SaveR ==
    /\ next_id <= MaxReasonFacts
    /\ \E inp \in GovInputs : DirectSaveBegin("a", inp, "t1")
VerifyR ==
    \E id \in ReasonIds, c \in ReasonVerifyCalls : VerifyFact(id, c[1], "user2", c[2], "t2")
SignOffR ==
    \E id \in ReasonIds, c \in ReasonSignOffCalls : SignOffFact(id, c[1], "user3", c[2], "t3")
NextReason == SaveR \/ Commit \/ Abort \/ VerifyR \/ SignOffR
SpecReason == InitReason /\ [][NextReason]_vars

\* SpecRelations: facts that contradict each other are saved one call at a time,
\* disputed, rejected and accepted, and every read query is called.
RelInputs ==
    OverlapInputs \cup
        { SaveInput("case1", TxtAcme, "party", Null, FALSE, "medium", NoneVal, "user1") }
InitRelations == InitWith({"a"}, {TRUE}) /\ arg = <<>> /\ res = <<>>
SaveRel ==
    /\ next_id <= MaxRelFacts
    /\ \E inp \in RelInputs : DirectSaveBegin("a", inp, "t1")
VerifyRel == \E id \in 1..MaxRelFacts : VerifyFact(id, "disputed", "user2", NoneVal, "t2")
SignOffRel ==
    \E id \in 1..MaxRelFacts, st \in {"rejected", "accepted"} :
        SignOffFact(id, st, "user3", NoneVal, "t3")
ListRel == \E rej \in BOOLEAN : ListCaseFacts("case1", NoneVal, NoneVal, NoneVal, rej)
DatesRel == GetCriticalDates("case1")
ScanRel == FindConflictingFacts("case1")
NextRelations ==
    SaveRel \/ Commit \/ Abort \/ VerifyRel \/ SignOffRel \/ ListRel \/ DatesRel \/ ScanRel
SpecRelations == InitRelations /\ [][NextRelations]_vars

\* SpecSignOffApi: sign-off requests reach the endpoint with statuses the body
\* admits and with others, for facts on file and for ids that are not; the service
\* is called directly as well.
EndpointStatuses == {"accepted", "rejected", "suggested", "withdrawn"}
InitSignOffApi == InitWith({"a"}, {TRUE}) /\ arg = <<>> /\ res = <<>>
SaveE ==
    /\ next_id <= MaxGovFacts
    /\ \E inp \in GovInputs : DirectSaveBegin("a", inp, "t1")
SignOffE ==
    /\ \A st \in valid_statuses : sign_offs[st] < MaxSignOffs
    /\ \E id \in GovIds, st \in EndpointStatuses : SignOffEndpoint(id, st, NoneVal, "t3")
DirectSignOffE ==
    \E id \in GovIds, st \in {"amended", "suggested"} :
        SignOffFact(id, st, "user3", NoneVal, "t3")
NextSignOffApi == SaveE \/ Commit \/ Abort \/ SignOffE \/ DirectSignOffE
SpecSignOffApi == InitSignOffApi /\ [][NextSignOffApi]_vars

\* SpecSink: facts are saved, verified, signed off through the endpoint and listed
\* while the metrics sink may fail at any recording.
SinkInputs ==
    GovInputs \cup
        { SaveInput("case1", TxtAcme, "party", Some(<<CiteLow>>), TRUE, "medium", NoneVal,
                    NoneVal) }
InitSink == InitWith({"a"}, {TRUE}) /\ arg = <<>> /\ res = <<>>
SaveK ==
    /\ next_id <= MaxGovFacts /\ CountersBelowCap /\ citation_checks["false"] < MaxMetric
    /\ \E inp \in SinkInputs : DirectSaveBegin("a", inp, "t1")
VerifyK == \E id \in GovIds : VerifyFact(id, "disputed", "user2", NoneVal, "t2")
SignOffK ==
    /\ \A st \in valid_statuses : sign_offs[st] < MaxSignOffs
    /\ \E id \in GovIds : SignOffEndpoint(id, "accepted", NoneVal, "t3")
DatesK == GetCriticalDates("case1")
TimedFailsK == TimedSinkFails("a")
SaveFailsK ==
    /\ next_id <= MaxGovFacts /\ citation_checks["false"] < MaxMetric
    /\ \E inp \in SinkInputs, metric \in {"citation_check", "hallucination_block"} :
          SaveFactSinkFails("a", inp, metric)
SignOffFailsK == \E id \in GovIds : SignOffEndpointSinkFails(id, "accepted")
NextSink ==
    SaveK \/ Commit \/ Abort \/ VerifyK \/ SignOffK \/ DatesK \/ TimedFailsK \/ SaveFailsK
        \/ SignOffFailsK
SpecSink == InitSink /\ [][NextSink]_vars

\* SpecBulk: bulk-extract requests arrive one at a time, small ones and ones above
\* the background threshold, with candidates that pass, lack citations or fail the
\* policy; a commit may fail.
CandJan == [text |-> TxtJan, type |-> "date", citations |-> Some(<<CiteGood>>),
            category |-> "hearing_date"]
CandFeb == [text |-> TxtFeb, type |-> "date", citations |-> Some(<<CiteGood95>>),
            category |-> "hearing_date"]
CandBad == [text |-> TxtAcme, type |-> "party", citations |-> Some(<<CiteRandom>>)]
CandNone == [text |-> TxtBob, type |-> "party", citations |-> Null]
Eleven ==
    <<CandJan, CandNoCitations, CandFeb, CandBad, CandGood, CandJan, CandFeb, CandNone,
      CandGood, CandBad, CandJan>>
Twelve == <<CandNone>> \o Eleven
\* case_id and extraction_data.facts of a request
EndpointInputs ==
    { <<"case1", <<CandJan, CandNoCitations, CandFeb, CandGood, CandNone, CandFeb, CandJan,
                   CandGood>>>>,
      <<"case1", Eleven>>,
      <<"case1", Twelve>>,
      <<"case1", SubSeq(Eleven, 1, 10)>>,
      <<"case1", <<CandBad, CandNone>>>>,
      <<"case1", <<CandFeb, CandJan>>>>,
      <<"case9", <<CandJan, CandNone>>>> }
InitBulk == InitWith({"a"}, {TRUE}) /\ arg = <<>> /\ res = <<>>
RequestB ==
    /\ next_id <= MaxBulkFacts /\ hallucination_blocks < MaxBulkFacts
    /\ \E inp \in EndpointInputs : BulkExtractEndpoint("a", inp[1], "doc1", inp[2])
SessionExitB == SessionExit("a")
TaskRunB == TaskRun("a")
StepB == BulkNext("a", "t1")
SavedB == BulkSaved("a")
AbortB == BulkAbort("a")
RespondB == BulkRespond("a")
TaskReturnB == TaskReturn("a")
NextBulk ==
    RequestB \/ SessionExitB \/ TaskRunB \/ StepB \/ SavedB \/ AbortB \/ RespondB
        \/ TaskReturnB
SpecBulk == InitBulk /\ [][NextBulk]_vars

\* SpecBulkLive: the same runs; the event loop runs a scheduled task after the
\* response and resumes every coroutine that awaits.
SpecBulkLive ==
    /\ SpecBulk
    /\ WF_vars(TaskRunB) /\ WF_vars(StepB) /\ WF_vars(SavedB \/ AbortB)
    /\ WF_vars(TaskReturnB)

\* SpecCite: the Citation Policy Evaluator applied to every citation list of the universe.
InitCite ==
    /\ InitWith({"a"}, BOOLEAN)
    /\ arg \in {Null} \cup { Some(cs) : cs \in SeqsUpTo(CitationUniverse, MaxCites) }
    /\ res = <<>>

ApplyCheckCitation ==
    /\ res = <<>>
    /\ res' = <<check_citation(arg)>>
    /\ citation_checks' = RecordCitationChecks(citation_checks, check_citation(arg).recorded)
    /\ UNCHANGED <<citation_required, facts, relations, sess, bulk, next_id,
                   hallucination_blocks, sign_offs, last, arg>>

SpecCite == InitCite /\ [][ApplyCheckCitation]_vars

\* SpecPair: the Conflict Detector applied to every pair of facts save_fact can construct
\* from these types, texts and categories.
FactTypes == {"date", "party", "claim", "evidence", "legal_point", "general"}
PairTexts == {TxtJan, TxtFeb, TxtDashed, TxtAcme, TxtBob}
PairCategories == {NoneVal, "hearing_date", "costs"}
PairFacts ==
    { NewCaseFact(SaveInput("case1", txt, ty, Null, FALSE, "medium", cat, "user1"), "t1") :
        txt \in PairTexts, ty \in FactTypes, cat \in PairCategories }

InitPair ==
    /\ InitWith({"a"}, {TRUE})
    /\ arg \in { <<f1, [f2 EXCEPT !.id = f1.id + 1]>> : f1 \in PairFacts, f2 \in PairFacts }
    /\ res = <<>>

ApplyFactsMayConflict ==
    /\ res = <<>>
    /\ res' = <<_facts_may_conflict(arg[1], arg[2])>>
    /\ UNCHANGED <<citation_required, facts, relations, sess, bulk, next_id, citation_checks,
                   hallucination_blocks, sign_offs, last, arg>>

SpecPair == InitPair /\ [][ApplyFactsMayConflict]_vars

---------------------------------------------------------------------------
\* Properties

\* what the citation policy asks of one citation, and of a citation list
CitationMeetsPolicy(c) ==
    /\ "confidence" \in DOMAIN c /\ c.confidence >= min_citation_confidence
    /\ "source" \in DOMAIN c
    /\ \E d \in allowed_citation_domains : Contains(c.source, d)

PolicySatisfied(citations) ==
    /\ citations # Null
    /\ Len(citations[1]) >= 1
    /\ \A i \in 1..Len(citations[1]) : CitationMeetsPolicy(citations[1][i])

\* the save_fact calls of the runs about the gate: direct ones and those of a bulk extraction
SaveCalls ==
    GateInputs \cup
    UNION { { BulkSaveInput("case1", "doc1", cands[i]) : i \in 1..Len(cands) } :
            cands \in BulkInputs }

\* the step is a call of save_fact with this outcome
SaveFactEnded(err) == last'.op = "save_fact" /\ last'.err = err

C1_Grounded ==
    citation_required =>
        \A f \in facts : f.extracted_by_ai => PolicySatisfied(f.citations)

C1_BlockedPersistsNothing ==
    [][SaveFactEnded(CitationPolicyViolation)
         => facts' = facts /\ relations' = relations /\ sess' = sess]_vars

\* C1: with citation enforcement enabled, every persisted fact with extracted_by_ai
\* carries at least one citation and each of its citations satisfies the policy;
\* a save_fact call that fails the citation gate persists no fact and no relation
\* and leaves nothing pending in its session.
C1_Theorem == []C1_Grounded /\ C1_BlockedPersistsNothing

\* an AI fact is on file under enforcement after the gate has also blocked a call
C1_Witness ==
    /\ citation_required
    /\ hallucination_blocks > 0
    /\ \E f \in facts : f.extracted_by_ai

\* C2: a save_fact call for a case on file with an AI fact, enforcement on and
\* citations that are empty or fail the policy raises CitationPolicyViolation, adds
\* exactly 1 to the hallucination-block counter and changes no fact, so every
\* get_case_facts result is what it was before the call.
C2_Theorem ==
    [][\A inp \in SaveCalls :
          ( /\ inp.case_id \in cases
            /\ inp.extracted_by_ai
            /\ citation_required
            /\ ~PolicySatisfied(inp.citations)
            /\ SaveFactBegin("a", inp, "t1") )
          => /\ last'.err = CitationPolicyViolation
             /\ hallucination_blocks' = hallucination_blocks + 1
             /\ facts' = facts
             /\ sess' = sess
             /\ \A c \in cases, rej \in BOOLEAN :
                    get_case_facts(c, NoneVal, NoneVal, NoneVal, rej)'
                        = get_case_facts(c, NoneVal, NoneVal, NoneVal, rej)]_vars

\* the gate has blocked a call while a fact was on file
C2_Witness ==
    /\ last.op = "save_fact" /\ last.err = CitationPolicyViolation
    /\ hallucination_blocks = 1
    /\ facts # {}

\* C3: check_citation passes when the policy is disabled; otherwise it passes exactly
\* when the list is non-empty and every citation has a confidence of at least
\* min_citation_confidence and a source containing an allowed domain.
C3_Theorem ==
    res # <<>> => (res[1].ok <=> (~citation_required \/ PolicySatisfied(arg)))

\* a list of two citations fails under enforcement although its first citation passes
C3_Witness ==
    /\ res # <<>> /\ citation_required /\ ~res[1].ok
    /\ arg # Null /\ Len(arg[1]) = 2
    /\ CitationMeetsPolicy(arg[1][1])

\* C4: for a case on file, save_fact with extracted_by_ai false goes on to construct
\* the fact whatever the citations are, without evaluating the gate (no counter
\* moves); the fact is verified, by the acting user, with verified_at set, and is
\* committed with those values.
C4_Theorem ==
    /\ [][\A inp \in SaveCalls :
            (inp.case_id \in cases /\ ~inp.extracted_by_ai /\ SaveFactBegin("a", inp, "t1"))
            => /\ last'.err = NoError
               /\ sess'["a"].pc = "added"
               /\ sess'["a"].fact[1].verification_status = "verified"
               /\ sess'["a"].fact[1].verified_by = inp.user_id
               /\ sess'["a"].fact[1].verified_at # NoneVal
               /\ sess'["a"].fact[1].citations = inp.citations
               /\ UNCHANGED <<citation_checks, hallucination_blocks>>]_vars
    /\ [][SaveFactCommit("a") =>
            \E f \in facts' \ facts :
                /\ f.id = sess["a"].fact[1].id
                /\ f.verification_status = sess["a"].fact[1].verification_status
                /\ f.verified_by = sess["a"].fact[1].verified_by
                /\ f.verified_at = sess["a"].fact[1].verified_at]_vars

\* a manual fact with citations that fail the policy is on file, under enforcement
C4_Witness ==
    /\ citation_required
    /\ \E f \in facts :
          /\ ~f.extracted_by_ai
          /\ f.citations # Null /\ ~PolicySatisfied(f.citations)
          /\ f.verification_status = "verified"
          /\ f.verified_by = "user3"

\* C5: a fact committed by save_fact with extracted_by_ai is unverified, with
\* verified_by and verified_at unset and extraction_model and extraction_timestamp
\* set; every fact committed by save_fact has sign_off_status suggested and
\* sign_off_by and sign_off_at unset.
C5_Theorem ==
    [][\A f \in facts' :
          (\A g \in facts : g.id # f.id)
          => /\ f.extracted_by_ai =>
                    /\ f.verification_status = "unverified"
                    /\ f.verified_by = NoneVal /\ f.verified_at = NoneVal
                    /\ f.extraction_model # NoneVal /\ f.extraction_timestamp # NoneVal
             /\ f.sign_off_status = "suggested"
             /\ f.sign_off_by = NoneVal /\ f.sign_off_at = NoneVal]_vars

\* an AI fact has just been committed
C5_Witness ==
    /\ last.op = "save_fact" /\ last.err = NoError /\ last.ret # <<>>
    /\ \E f \in facts : f.id = last.ret[1] /\ f.extracted_by_ai

C7_NoGateForUnknownCase ==
    [][\A inp \in SaveCalls :
          (inp.case_id \notin cases /\ SaveFactBegin("a", inp, "t1"))
          => /\ last'.err = CaseNotFound
             /\ UNCHANGED <<facts, relations, sess, hallucination_blocks, citation_checks>>]_vars

C7_FactsReferenceCases == \A f \in facts : f.case_id \in cases

\* C7: save_fact for a case id that is not on file fails with CaseNotFound, persists
\* nothing and moves neither the hallucination-block nor the citation-check counter;
\* every persisted fact references a case on file.
C7_Theorem == []C7_FactsReferenceCases /\ C7_NoGateForUnknownCase

\* a call for an unknown case has failed while a fact was on file
C7_Witness ==
    /\ last.op = "save_fact" /\ last.err = CaseNotFound
    /\ facts # {}

\* C6: the fact of a save_fact in flight and the relations found for it are persisted
\* together or not at all: while the call is in flight neither is on file, every step
\* leaves both on file or neither, and no relation is on file without its fact.
C6_Theorem ==
    /\ [](\A r \in relations : \E f \in facts : f.id = r.fact_id)
    /\ [](sess["a"].pc = "added" =>
            /\ \A f \in facts : f.id # sess["a"].fact[1].id
            /\ \A r \in relations : r.fact_id # sess["a"].fact[1].id)
    /\ [][sess["a"].pc = "added" =>
            \/ /\ \E f \in facts' : f.id = sess["a"].fact[1].id
               /\ sess["a"].rels \subseteq relations'
            \/ /\ \A f \in facts' : f.id # sess["a"].fact[1].id
               /\ \A r \in relations' : r.fact_id # sess["a"].fact[1].id]_vars

\* a fact has just been committed together with a relation
C6_Witness ==
    /\ last.op = "save_fact" /\ last.err = NoError /\ last.ret # <<>>
    /\ \E r \in relations : r.fact_id = last.ret[1]

\* C8: _facts_may_conflict flags two facts exactly when they have the same fact_type
\* and either the type is date, both dates are set, the categories are equal and the
\* dates differ, or the type is party, the categories are equal and the texts differ.
C8_Theorem ==
    res # <<>> =>
        (res[1] <=>
            /\ arg[1].fact_type = arg[2].fact_type
            /\ \/ /\ arg[1].fact_type = "date"
                  /\ arg[1].fact_date # Null /\ arg[2].fact_date # Null
                  /\ arg[1].category = arg[2].category
                  /\ arg[1].fact_date # arg[2].fact_date
               \/ /\ arg[1].fact_type = "party"
                  /\ arg[1].category = arg[2].category
                  /\ arg[1].fact_text # arg[2].fact_text)

\* two dated facts of different categories and different dates are not flagged
C8_Witness ==
    /\ res = <<FALSE>>
    /\ arg[1].fact_type = "date" /\ arg[2].fact_type = "date"
    /\ arg[1].fact_date # Null /\ arg[2].fact_date # Null
    /\ arg[1].fact_date # arg[2].fact_date
    /\ arg[1].category # arg[2].category

\* the relation rows save_fact owes for a new fact, given the rows on file
RelationsOwed(new) ==
    { [fact_id |-> new.id, related_fact_id |-> g.id, relation_type |-> "contradicts",
       confidence |-> 80] :
        g \in { h \in facts : /\ h.case_id = new.case_id
                              /\ h.id # new.id
                              /\ h.sign_off_status # "rejected"
                              /\ _facts_may_conflict(new, h) } }

\* C9: save_fact finds one contradicts row for each other fact of the same case that
\* is not rejected and that the detector flags against the new fact, and no other;
\* its commit adds exactly the new fact and those rows; both endpoints of every
\* persisted relation are distinct facts of one case.
C9_Theorem ==
    /\ [][(last'.op = "save_fact" /\ sess["a"].pc = "idle" /\ sess'["a"].pc = "added")
            => sess'["a"].rels = RelationsOwed(sess'["a"].fact[1])]_vars
    /\ [][(sess["a"].pc = "added" /\ sess'["a"].pc = "idle" /\ last'.err = NoError)
            => /\ relations' \ relations = sess["a"].rels
               /\ \E f \in facts' \ facts : f.id = sess["a"].fact[1].id
               /\ Cardinality(facts' \ facts) = 1]_vars
    /\ [](\A r \in relations :
            \E f \in facts, g \in facts :
                /\ f.id = r.fact_id /\ g.id = r.related_fact_id
                /\ f.id # g.id /\ f.case_id = g.case_id
                /\ r.relation_type = "contradicts")

\* a fact was committed with a relation while its case held a rejected fact, which
\* no relation of the new fact points to
C9_Witness ==
    /\ last.op = "save_fact" /\ last.err = NoError /\ last.ret # <<>>
    /\ \E r \in relations : r.fact_id = last.ret[1]
    /\ \E f \in facts, g \in facts :
          /\ f.id = last.ret[1] /\ g.case_id = f.case_id
          /\ g.sign_off_status = "rejected" /\ g.sign_off_at # NoneVal
          /\ \A r \in relations : ~(r.fact_id = f.id /\ r.related_fact_id = g.id)
          /\ _facts_may_conflict(f, g)

\* the unordered pairs find_conflicting_facts owes for a case
PairsOwed(case_id) ==
    LET eligible == { f \in facts : f.case_id = case_id /\ f.sign_off_status # "rejected" }
    IN  { {f.id, g.id} : <<f, g>> \in { x \in eligible \X eligible :
                                          x[1].id # x[2].id /\ _facts_may_conflict(x[1], x[2]) } }

\* C10: find_conflicting_facts returns each unordered pair of distinct facts of the
\* case that are not rejected and that the detector flags exactly once, and no other
\* pair.
C10_Theorem ==
    last.op = "find_conflicting_facts" =>
        LET pairs == last.ret[2]
            AsSet(i) == {pairs[i][1], pairs[i][2]}
        IN  /\ \A i \in 1..Len(pairs) :
                  pairs[i][1] # pairs[i][2] /\ AsSet(i) \in PairsOwed(last.ret[1])
            /\ \A pr \in PairsOwed(last.ret[1]) :
                  Cardinality({ i \in 1..Len(pairs) : AsSet(i) = pr }) = 1

\* a scan returned a pair for a case that also holds a rejected fact and a fact of
\* another case is on file
C10_Witness ==
    /\ last.op = "find_conflicting_facts"
    /\ Len(last.ret[2]) >= 1
    /\ \E f \in facts : f.case_id = last.ret[1] /\ f.sign_off_status = "rejected"

C12_Theorem ==
    /\ [][\A p \in Requests :
            (sess[p].pc = "idle" /\ sess'[p].pc = "added")
            => /\ sess'[p].rels = RelationsOwed(sess'[p].fact[1])
               /\ \A r \in sess'[p].rels : \E f \in facts : f.id = r.related_fact_id]_vars
    /\ [](last.op = "find_conflicting_facts" =>
            \A pr \in PairsOwed(last.ret[1]) :
                \E i \in 1..Len(last.ret[2]) : {last.ret[2][i][1], last.ret[2][i][2]} = pr)

\* two contradicting facts of one case are on file with no relation row between
\* them, and a scan made after both commits has returned the pair
C12_Witness ==
    /\ last.op = "find_conflicting_facts"
    /\ \A p \in DOMAIN sess : sess[p].pc = "idle"
    /\ \E f \in facts, g \in facts :
          /\ f.id # g.id /\ f.case_id = g.case_id
          /\ _facts_may_conflict(f, g)
          /\ \A r \in relations : {r.fact_id, r.related_fact_id} # {f.id, g.id}
          /\ \E i \in 1..Len(last.ret[2]) :
                {last.ret[2][i][1], last.ret[2][i][2]} = {f.id, g.id}

\* C13: with serialised saves, every pair that find_conflicting_facts returns is
\* linked by a persisted contradicts relation.
C13_Counterexample ==
    last.op = "find_conflicting_facts" =>
        \A i \in 1..Len(last.ret[2]) :
            \E r \in relations :
                /\ {r.fact_id, r.related_fact_id} = {last.ret[2][i][1], last.ret[2][i][2]}
                /\ r.relation_type = "contradicts"

\* C14: verify_fact and sign_off_fact fail with FactNotFound when no fact has the id,
\* and with their invalid-status error when the fact exists and the status is not
\* one of verified, disputed (verify_fact) or accepted, amended, rejected
\* (sign_off_fact), the initial values unverified and suggested included; a failing
\* call changes no fact.
C14_Theorem ==
    /\ [][\A id \in GovIds, c \in VerifyCalls :
            (last'.op = "verify_fact" /\ VerifyFact(id, c[1], "user2", c[2], "t2"))
            => /\ GetFact(id) = {} => last'.err = FactNotFound
               /\ (GetFact(id) # {} /\ c[1] \notin {"verified", "disputed"})
                      => last'.err = InvalidVerificationStatus
               /\ last'.err # NoError => facts' = facts]_vars
    /\ [][\A id \in GovIds, c \in SignOffCalls :
            (last'.op = "sign_off_fact" /\ SignOffFact(id, c[1], "user3", c[2], "t3"))
            => /\ GetFact(id) = {} => last'.err = FactNotFound
               /\ (GetFact(id) # {} /\ c[1] \notin {"accepted", "amended", "rejected"})
                      => last'.err = InvalidSignOffStatus
               /\ last'.err # NoError => facts' = facts]_vars

\* a call with a status outside the allowed ones has failed on a fact that is on file
C14_Witness ==
    /\ last.op \in {"verify_fact", "sign_off_fact"}
    /\ last.err \in {InvalidVerificationStatus, InvalidSignOffStatus}
    /\ Cardinality(facts) = MaxGovFacts

\* C15: verification_status of a fact changes only when its current value is
\* unverified.
C15_Counterexample ==
    [][\A f \in facts : \A g \in facts' :
          (g.id = f.id /\ g.verification_status # f.verification_status)
          => f.verification_status = "unverified"]_vars

\* C16: sign_off_status of a fact changes only when its current value is suggested,
\* so a rejected fact stays rejected.
C16_Counterexample ==
    [][\A f \in facts : \A g \in facts' :
          (g.id = f.id /\ g.sign_off_status # f.sign_off_status)
          => f.sign_off_status = "suggested"]_vars

\* the sign-off fields and the verification fields of two rows agree
SameSignOff(f, g) ==
    /\ g.sign_off_status = f.sign_off_status
    /\ g.sign_off_by = f.sign_off_by
    /\ g.sign_off_at = f.sign_off_at
SameVerification(f, g) ==
    /\ g.verification_status = f.verification_status
    /\ g.verified_by = f.verified_by
    /\ g.verified_at = f.verified_at

\* C17: verify_fact with an allowed status succeeds on a fact on file whatever its
\* sign_off_status, sets the verification fields and leaves sign_off_status,
\* sign_off_by and sign_off_at of every fact as they were; sign_off_fact with an
\* allowed status succeeds whatever the verification_status, sets the sign-off
\* fields and leaves verification_status, verified_by and verified_at as they were.
C17_Theorem ==
    /\ [][\A id \in GovIds, c \in VerifyCalls :
            ( /\ last'.op = "verify_fact"
              /\ GetFact(id) # {}
              /\ c[1] \in {"verified", "disputed"}
              /\ VerifyFact(id, c[1], "user2", c[2], "t2") )
            => /\ last'.err = NoError
               /\ \A f \in facts : \E g \in facts' :
                     /\ g.id = f.id
                     /\ SameSignOff(f, g)
                     /\ f.id = id => /\ g.verification_status = c[1]
                                     /\ g.verified_by = "user2"
                                     /\ g.verified_at = "t2"]_vars
    /\ [][\A id \in GovIds, c \in SignOffCalls :
            ( /\ last'.op = "sign_off_fact"
              /\ GetFact(id) # {}
              /\ c[1] \in {"accepted", "amended", "rejected"}
              /\ SignOffFact(id, c[1], "user3", c[2], "t3") )
            => /\ last'.err = NoError
               /\ \A f \in facts : \E g \in facts' :
                     /\ g.id = f.id
                     /\ SameVerification(f, g)
                     /\ f.id = id => /\ g.sign_off_status = c[1]
                                     /\ g.sign_off_by = "user3"
                                     /\ g.sign_off_at = "t3"]_vars

\* verify_fact has just succeeded on a fact whose sign-off is rejected
C17_Witness ==
    /\ last.op = "verify_fact" /\ last.err = NoError
    /\ \E f \in facts :
          /\ <<f.id>> = last.ret
          /\ f.sign_off_status = "rejected" /\ f.sign_off_by = "user3"
          /\ f.verification_status = "disputed" /\ f.verified_by = "user2"

\* the fields of a row that no governance call writes
Core(f) ==
    [f EXCEPT !.verification_status = "", !.verified_by = "", !.verified_at = "",
              !.sign_off_status = "", !.sign_off_by = "", !.sign_off_at = "",
              !.amendment_reason = ""]

\* C19: every step keeps every fact on file and keeps its id, case_id, fact_type,
\* fact_text, fact_date, citations, provenance, extracted_by_ai, confidence_score,
\* importance, category and created_at; a fact's governance fields change only in
\* a successful verify_fact or sign_off_fact call on that fact, and each changes
\* only its own axis and amendment_reason.
C19_Theorem ==
    [][\A f \in facts : \E g \in facts' :
          /\ g.id = f.id
          /\ Core(g) = Core(f)
          /\ g # f => /\ last'.op \in {"verify_fact", "sign_off_fact"}
                      /\ last'.err = NoError
                      /\ last'.ret = <<f.id>>
                      /\ last'.op = "verify_fact" => SameSignOff(f, g)
                      /\ last'.op = "sign_off_fact" => SameVerification(f, g)]_vars

\* a fact has been verified and signed off with an amendment reason
C19_Witness ==
    \E f \in facts :
        /\ f.verified_by = "user2" /\ f.sign_off_by = "user3"
        /\ f.amendment_reason = "typo"
        /\ f.created_at = 1 /\ f.fact_text \in {TxtJan, TxtFeb}

\* the ids of the rejected facts of a case
RejectedIds(case_id) ==
    { f.id : f \in { g \in facts : g.case_id = case_id /\ g.sign_off_status = "rejected" } }

\* the ids in a list of ids
IdSet(ids) == { ids[i] : i \in 1..Len(ids) }

\* what the last query returned holds no rejected fact, except a listing called
\* with include_rejected, which holds every rejected fact of the case when it is
\* called without filters
C18_Queries ==
    /\ (last.op = "get_case_facts" /\ ~last.ret[5])
          => IdSet(last.ret[6]) \cap RejectedIds(last.ret[1]) = {}
    /\ (last.op = "get_case_facts" /\ last.ret[5] /\ last.ret[2] = NoneVal
          /\ last.ret[3] = NoneVal /\ last.ret[4] = NoneVal)
          => RejectedIds(last.ret[1]) \subseteq IdSet(last.ret[6])
    /\ last.op = "get_critical_dates"
          => IdSet(last.ret[2]) \cap RejectedIds(last.ret[1]) = {}
    /\ last.op = "find_conflicting_facts"
          => \A i \in 1..Len(last.ret[2]) :
                 IdSet(last.ret[2][i]) \cap RejectedIds(last.ret[1]) = {}

\* C18: a sign-off never removes a fact; a fact whose sign_off_status is rejected is
\* in no get_case_facts result with include_rejected false, in no
\* get_critical_dates result, in no pair of find_conflicting_facts and in no
\* relation row found by the scan of a later save_fact, and it is in the
\* get_case_facts result of its case with include_rejected true and no filter.
C18_Theorem ==
    /\ []C18_Queries
    /\ [][(sess["a"].pc = "idle" /\ sess'["a"].pc = "added")
            => \A r \in sess'["a"].rels :
                   r.related_fact_id \notin RejectedIds(sess'["a"].fact[1].case_id)]_vars
    /\ [][\A f \in facts : \E g \in facts' : g.id = f.id]_vars

\* get_critical_dates has returned a date of a case that holds a rejected critical
\* date
C18_Witness ==
    /\ last.op = "get_critical_dates"
    /\ Len(last.ret[2]) >= 1
    /\ \E f \in facts :
          /\ f.case_id = last.ret[1] /\ f.sign_off_status = "rejected"
          /\ f.fact_type = "date" /\ f.importance = "critical"

\* a filter of get_case_facts is provided when it is neither None nor empty
Provided(filter) == filter # NoneVal /\ filter # ""

\* the facts get_case_facts is to return for the arguments of a call
Listed(case_id, fact_type, verification_status, importance, include_rejected) ==
    { f \in facts :
        /\ f.case_id = case_id
        /\ (Provided(fact_type) => f.fact_type = fact_type)
        /\ (Provided(verification_status) => f.verification_status = verification_status)
        /\ (Provided(importance) => f.importance = importance)
        /\ (f.sign_off_status = "rejected" => include_rejected) }

\* C20: get_case_facts returns each fact of the case that matches every provided
\* filter and, unless include_rejected is true, is not rejected, once and no other
\* fact, a fact created later before a fact created earlier.
C20_Theorem ==
    last.op = "get_case_facts" =>
        LET ids == last.ret[6]
            owed == Listed(last.ret[1], last.ret[2], last.ret[3], last.ret[4], last.ret[5])
            Row(i) == CHOOSE f \in facts : f.id = ids[i]
        IN  /\ IdSet(ids) = { f.id : f \in owed }
            /\ Len(ids) = Cardinality(owed)
            /\ \A i \in 1..Len(ids) : \A j \in (i + 1)..Len(ids) :
                   Row(i).created_at > Row(j).created_at

\* a call with a fact_type filter returned one of the two facts of the case
C20_Witness ==
    /\ last.op = "get_case_facts"
    /\ last.ret[2] = "date"
    /\ Len(last.ret[6]) = 1
    /\ Cardinality({ f \in facts : f.case_id = last.ret[1] }) = 2

\* the facts get_critical_dates is to return for a case
CriticalDatesOwed(case_id) ==
    { f \in facts :
        /\ f.case_id = case_id
        /\ f.fact_type = "date"
        /\ f.importance \in {"critical", "high"}
        /\ f.sign_off_status # "rejected" }

\* C21: a call of get_critical_dates(case_id) returns each fact of the case with
\* fact_type date, importance critical or high and sign_off_status not rejected
\* once, whatever its verification_status, and no other fact; no fact of the
\* result has a fact_date before that of a fact listed ahead of it.
C21_Theorem ==
    [][\A c \in cases :
          (last'.op = "get_critical_dates" /\ last'.ret[1] = c /\ GetCriticalDates(c))
          => LET ids == last'.ret[2]
                 Row(i) == CHOOSE f \in facts : f.id = ids[i]
             IN  /\ IdSet(ids) = { f.id : f \in CriticalDatesOwed(c) }
                 /\ Len(ids) = Cardinality(CriticalDatesOwed(c))
                 /\ \A i \in 1..Len(ids) : \A j \in (i + 1)..Len(ids) :
                        ~DateBefore(Row(j), Row(i))]_vars

\* the call returned a verified fact and one that is not verified, the later-saved
\* one first because its date is the earlier
C21_Witness ==
    /\ last.op = "get_critical_dates"
    /\ Len(last.ret[2]) = 2
    /\ last.ret[2][1] > last.ret[2][2]
    /\ \E f, g \in facts :
          /\ f.id = last.ret[2][1] /\ g.id = last.ret[2][2]
          /\ DateBefore(f, g)
          /\ f.verification_status = "verified" /\ g.verification_status # "verified"

\* a candidate that lacks citations, and one that save_fact rejects
LacksCitations(fact_data) == ~Truthy(Get(fact_data, "citations", Null))
FailsPolicy(fact_data) == ~LacksCitations(fact_data) /\ ~PolicySatisfied(fact_data.citations)
FailedCandidates(case_id, extracted_facts) ==
    { i \in 1..Len(extracted_facts) :
        \/ LacksCitations(extracted_facts[i])
        \/ FailsPolicy(extracted_facts[i])
        \/ case_id \notin cases }

\* C22: in bulk_extract_facts a candidate that lacks citations or fails the citation
\* policy is skipped: the call goes on with the next candidate and nothing is
\* persisted or added to the saved facts for it.  A fact enters the saved facts
\* exactly when its save commits.  The answer of the synchronous endpoint lists
\* the saved facts, extracted is their number, failed is the number of candidates
\* that lacked citations or were rejected, and extracted + failed is the number
\* of candidates.
C22_Theorem ==
    /\ [][(bulk["a"].active /\ bulk["a"].todo # <<>> /\ sess["a"].pc = "idle"
              /\ (LacksCitations(Head(bulk["a"].todo)) \/ FailsPolicy(Head(bulk["a"].todo)))
              /\ BulkNext("a", "t1"))
           => /\ bulk'["a"] = [bulk["a"] EXCEPT !.todo = Tail(@), !.skipped = @ + 1]
              /\ UNCHANGED <<facts, relations, sess, next_id>>]_vars
    /\ [][(bulk["a"].active /\ bulk'["a"].active)
           => IF facts' # facts
              THEN \E f \in facts' \ facts :
                      /\ facts' = facts \cup {f}
                      /\ bulk'["a"].saved = Append(bulk["a"].saved, f.id)
              ELSE bulk'["a"].saved = bulk["a"].saved]_vars
    /\ [][(bulk["a"].active /\ bulk["a"].request.n > 0 /\ BulkRespond("a"))
           => LET failed == FailedCandidates(bulk["a"].case_id, bulk["a"].extracted_facts)
              IN  /\ last'.ret.facts = bulk["a"].saved
                  /\ last'.ret.extracted = Len(bulk["a"].saved)
                  /\ last'.ret.failed = Cardinality(failed)
                  /\ last'.ret.extracted + last'.ret.failed
                         = Len(bulk["a"].extracted_facts)
                  /\ UNCHANGED <<facts, relations>>]_vars

\* the synchronous endpoint answered 6 saved facts and 2 failures for 8 candidates
C22_Witness ==
    /\ last.op = "bulk_extract_facts_endpoint"
    /\ "extracted" \in DOMAIN last.ret
    /\ last.ret.extracted = 6 /\ last.ret.failed = 2
    /\ Cardinality(facts) = 6
    /\ hallucination_blocks = 0

\* the positions of the candidates of a call that are to be saved, in order
RECURSIVE PassingFrom(_, _, _)
PassingFrom(case_id, extracted_facts, i) ==
    IF i > Len(extracted_facts) THEN <<>>
    ELSE IF i \in FailedCandidates(case_id, extracted_facts)
    THEN PassingFrom(case_id, extracted_facts, i + 1)
    ELSE <<i>> \o PassingFrom(case_id, extracted_facts, i + 1)

\* what a finished bulk_extract_facts call b has persisted: one fact for each
\* candidate to be saved, in order, built from the candidate, and for each of
\* these facts a contradicts relation to every fact on file before it that
\* conflicts with it
BulkPersisted(b) ==
    LET passing == PassingFrom(b.case_id, b.extracted_facts, 1)
    IN  /\ Len(b.saved) = Len(passing)
        /\ \A k \in 1..Len(passing) :
              \E f \in facts :
                 /\ f.id = b.saved[k]
                 /\ f = [NewCaseFact(BulkSaveInput(b.case_id, b.document_id,
                                                   b.extracted_facts[passing[k]]), "t1")
                            EXCEPT !.id = f.id, !.created_at = f.created_at]
                 /\ { r \in relations : r.fact_id = f.id }
                       = { [fact_id |-> f.id, related_fact_id |-> g.id,
                            relation_type |-> "contradicts", confidence |-> 80] :
                             g \in { h \in facts : /\ h.id < f.id
                                                   /\ h.case_id = f.case_id
                                                   /\ _facts_may_conflict(f, h) } }

\* the endpoint has acknowledged a large extraction
Acknowledged ==
    /\ last.op = "bulk_extract_facts_endpoint"
    /\ DOMAIN last.ret = {"message"}

\* a bulk_extract_facts call has ended: it returned, or a commit failed in it
CallEnded ==
    \/ last.op = "bulk_extract_facts" /\ Len(last.ret) = 2
    \/ last.err = CommitFailed

\* C23: a request with 10 or fewer candidates starts bulk_extract_facts inside the
\* request; one with more schedules the call with the same arguments, persists
\* nothing and answers with a message only.  A scheduled call is started, also
\* after the session of the request was closed, and once acknowledged it
\* eventually ends.  When a call returns, in the request or in the background,
\* it has persisted the same facts and relations for its candidates.
C23_Theorem ==
    /\ [][\A inp \in EndpointInputs :
             (~bulk["a"].active /\ bulk["a"].request = NoRequest
                /\ bulk'["a"] # bulk["a"]
                /\ BulkExtractEndpoint("a", inp[1], "doc1", inp[2]))
             => IF Len(inp[2]) <= BackgroundThreshold
                THEN /\ bulk'["a"].active
                     /\ bulk'["a"].extracted_facts = inp[2]
                     /\ bulk'["a"].request.tasks = Null
                ELSE /\ ~bulk'["a"].active
                     /\ bulk'["a"].request.tasks = Some(<<inp[1], "doc1", inp[2]>>)
                     /\ last'.ret = [message |-> Len(inp[2])]
                     /\ UNCHANGED <<facts, relations, sess>>]_vars
    /\ [][(bulk["a"].request.tasks # Null /\ TaskRun("a"))
           => /\ bulk'["a"].active
              /\ <<bulk'["a"].case_id, bulk'["a"].document_id, bulk'["a"].extracted_facts>>
                    = bulk["a"].request.tasks[1]]_vars
    /\ [][(bulk["a"].active /\ ~bulk'["a"].active /\ last'.err = NoError)
           => BulkPersisted(bulk["a"])]_vars
    /\ Acknowledged ~> CallEnded

\* a call scheduled with 11 candidates, started after the session of its request
\* was closed, has gone through its candidates and saved 7 facts, with relations
\* between them
C23_Witness ==
    /\ bulk["a"].active
    /\ bulk["a"].request.n = 11 /\ bulk["a"].request.db = "closed"
    /\ bulk["a"].todo = <<>> /\ sess["a"].pc = "idle"
    /\ Len(bulk["a"].saved) = 7
    /\ Cardinality(facts) = 7
    /\ relations # {}

\* the confidences of a citation list added up
RECURSIVE ConfidenceTotal(_)
ConfidenceTotal(citations) ==
    IF citations = <<>> THEN 0
    ELSE Head(citations).confidence + ConfidenceTotal(Tail(citations))

\* C25: the confidence_score of every fact on file is the arithmetic mean of the
\* confidences of its own citations (score times number of citations is their
\* sum), and 0 when it has none; for manual facts as for AI facts.
C25_Theorem ==
    \A f \in facts :
        LET own == IF f.citations = Null THEN <<>> ELSE f.citations[1]
            score == f.confidence_score
        IN  /\ score.den > 0
            /\ score.num * Len(own) = ConfidenceTotal(own) * score.den
            /\ own = <<>> => score.num = 0

\* a manual fact with two citations of confidence 0.80 and 0.99 and an AI fact with
\* two citations are on file
C25_Witness ==
    /\ \E f \in facts :
          /\ ~f.extracted_by_ai /\ f.citations = Some(<<CiteLow, CiteRandom>>)
          /\ f.confidence_score.num = 179 /\ f.confidence_score.den = 2
    /\ \E f \in facts :
          /\ f.extracted_by_ai /\ f.citations # Null /\ Len(f.citations[1]) = 2

\* the observations in the citation_check counter
Observations(counter) == counter["true"] + counter["false"]

\* C27: a save_fact call for a case on file with an AI fact and enforcement on
\* evaluates the citations against the policy and adds exactly one citation_check
\* observation: a success when the citations satisfy the policy, a failure when
\* they do not.
C27_Counterexample ==
    [][\A inp \in SaveCalls :
          ( /\ inp.case_id \in cases
            /\ inp.extracted_by_ai
            /\ citation_required
            /\ SaveFactBegin("a", inp, "t1") )
          => /\ Observations(citation_checks') = Observations(citation_checks) + 1
             /\ citation_checks'["true"] =
                   citation_checks["true"] + (IF PolicySatisfied(inp.citations) THEN 1 ELSE 0)]_vars

\* the rejections of the engine
Rejections ==
    { CaseNotFound, CitationPolicyViolation, FactNotFound, InvalidVerificationStatus,
      InvalidSignOffStatus }

\* C26: two rejections that differ are errors of different kinds: when a call ends
\* with one rejection and the next call with another, the two errors differ in
\* their exception class and their endpoints answer different status codes.
C26_Counterexample ==
    [][(last.err \in Rejections /\ last'.err \in Rejections /\ last'.err.msg # last.err.msg)
         => /\ last'.err.exc # last.err.exc
            /\ EndpointStatus(last'.op, last'.err) # EndpointStatus(last.op, last.err)]_vars

\* the amendment_reason of every fact after a call on fact_id: the reason given when
\* the call is allowed and the reason is not empty, else what it was
ReasonAfter(fact_id, allowed, reason) ==
    \A f \in facts :
        \E g \in facts' :
            /\ g.id = f.id
            /\ g.amendment_reason =
                  IF f.id = fact_id /\ allowed /\ reason \notin {NoneVal, ""}
                  THEN reason ELSE f.amendment_reason

\* C28: verify_fact and sign_off_fact write the one amendment_reason field of the
\* fact: a call with a reason that is not empty replaces the value, whichever
\* operation wrote it, and a call with no reason or an empty one leaves it, also
\* when the call changes the status.
C28_Theorem ==
    /\ [][\A id \in ReasonIds, c \in ReasonVerifyCalls :
             (last'.op = "verify_fact" /\ VerifyFact(id, c[1], "user2", c[2], "t2"))
             => ReasonAfter(id, c[1] \in {"verified", "disputed"}, c[2])]_vars
    /\ [][\A id \in ReasonIds, c \in ReasonSignOffCalls :
             (last'.op = "sign_off_fact" /\ SignOffFact(id, c[1], "user3", c[2], "t3"))
             => ReasonAfter(id, c[1] \in {"accepted", "amended", "rejected"}, c[2])]_vars

\* a fact verified and accepted by calls without a reason still carries the reason
\* given when it was amended
C28_Witness ==
    \E f \in facts :
        /\ f.verification_status = "verified" /\ f.verified_by = "user2"
        /\ f.sign_off_status = "accepted"
        /\ f.amendment_reason = "s-reason"

\* C29: every relation row on file stays on file unchanged; rows are added only by
\* the commit of a save_fact call, and verify_fact, sign_off_fact, get_case_facts,
\* get_critical_dates and find_conflicting_facts leave the table as it is, so the
\* relation of a fact that is signed off as rejected stays.
C29_Theorem ==
    /\ [][relations \subseteq relations']_vars
    /\ [][relations' # relations => (sess["a"].pc = "added" /\ SaveFactCommit("a"))]_vars
    /\ [][last'.op \in {"verify_fact", "sign_off_fact", "get_case_facts",
                         "get_critical_dates", "find_conflicting_facts"}
            => relations' = relations]_vars

\* a contradicts relation is on file whose newer fact is rejected, and the case was
\* scanned since
C29_Witness ==
    /\ last.op = "find_conflicting_facts"
    /\ \E r \in relations :
          /\ r.relation_type = "contradicts"
          /\ \E f \in facts : f.id = r.fact_id /\ f.sign_off_status = "rejected"
                               /\ f.verification_status = "disputed"

\* C30: a request to the sign-off endpoint whose status the body admits adds exactly
\* 1 to the sign_off counter of that status and leaves the other counters, also
\* when the fact is not on file, in which case the request is answered 404 and no
\* fact changes; a request with another status moves no counter; the counter moves
\* in no other step, so a direct sign_off_fact call leaves it.
C30_Theorem ==
    /\ [][\A id \in GovIds, st \in EndpointStatuses :
             (last'.op = "sign_off_fact_endpoint" /\ SignOffEndpoint(id, st, NoneVal, "t3"))
             => IF st \in {"accepted", "amended", "rejected"}
                THEN /\ sign_offs' = [sign_offs EXCEPT ![st] = @ + 1]
                     /\ (\A f \in facts : f.id # id)
                           => (facts' = facts /\ last'.ret.status_code = 404)
                ELSE sign_offs' = sign_offs /\ facts' = facts]_vars
    /\ [][sign_offs' # sign_offs => last'.op = "sign_off_fact_endpoint"]_vars
    /\ [][\A id \in GovIds, st \in {"amended", "suggested"} :
             (last'.op = "sign_off_fact" /\ SignOffFact(id, st, "user3", NoneVal, "t3"))
             => sign_offs' = sign_offs]_vars

\* a request to reject a fact that is not on file was answered 404 and counted,
\* and a direct call has amended a fact without being counted
C30_Witness ==
    /\ last.op = "sign_off_fact_endpoint"
    /\ last.ret.status_code = 404
    /\ sign_offs["rejected"] = 1 /\ sign_offs["amended"] = 0
    /\ \E f \in facts : f.sign_off_status = "amended"

\* C24: no call of save_fact, verify_fact, sign_off_fact or a query ends with the
\* error of a metric that was not recorded: the caller gets what the operation
\* returns when the sink works.
C24_Counterexample == last.err # SinkFailed

====
